---- MODULE Spec2Model ----
(***************************************************************************)
(* chainbase: generic_index with its undo stack, the scoped sessions and   *)
(* the database facade that fans operations out to every registered index.*)
(*                                                                         *)
(* An object is a record [id, key]: id is the primary key handed out by    *)
(* generic_index, key is a field under a unique secondary index of the     *)
(* multi_index_container (it is also the only payload of the object).      *)
(***************************************************************************)
EXTENDS Integers, Sequences, FiniteSets, TLC

\* ---------------------------------------------------------------- bounds
MaxId == 2          \* emplace is offered while next_id < MaxId
MaxDepth == 2       \* start_undo_session is offered while the stack is shorter
MaxSessions == 2    \* generic_index::session handles alive at the same time
DbMaxId == 1        \* create through the database is offered while next_id < DbMaxId
MaxDbSessions == 1  \* database::session handles alive at the same time
MaxThreads == 2     \* threads that call the lock interface
MaxRetries == 1     \* largest retry count a lock call is made with
MaxDrift == 1       \* lock calls are offered while the lock counts are within this of 0
MaxAdvance == 2     \* ring calls are offered while _current_lock is below this
MaxSize == 2        \* largest size of shared_memory.bin and of a requested size

CHAINBASE_NUM_RW_LOCKS == 10  \* slots of the lock ring

MaxRev == MaxDepth + 1  \* start_undo_session is offered while revision < MaxRev
Kinds == {1, 2}     \* object kinds of the model, each named by its type_id
TheKind == CHOOSE k \in Kinds : \A j \in Kinds : k <= j  \* kind of the single-index specification
\* the registry key of a kind: const uint16_t type_id = value_type::type_id
registry_key(type_id) == type_id % 65536
\* a kind whose type_id differs from TheKind's in the upper bits only
VersionedKinds == {TheKind + 65536}
AllKinds == Kinds \cup VersionedKinds
RegistryKeys == {registry_key(k) : k \in AllKinds}
Keys == {1, 2}      \* values of the unique secondary key
Revs == 0..MaxRev   \* arguments of commit and set_revision

VARIABLES
    idx,        \* kind -> generic_index: [indices, next_id, revision, stack]
    op,         \* name of the last operation
    err,        \* outcome of the last operation ("ok" or the error raised)
    crashed,    \* the process was ended by undefined behaviour or an assert
    sessions,   \* generic_index::session handles: slot -> handle or NoSession
    index_list, \* database::_index_list: sequence of registered kinds
    index_map,  \* database::_index_map: registry key -> an index handle is stored
    db_sessions, \* database::session handles: slot -> handle or NoSession
    segment,    \* the mapped file: kind -> "none", "valid" or "invalid" index
    read_only,  \* database::_read_only
    mutex,      \* database::_mutex: [shared, exclusive]
    thread,     \* thread -> its position in with_read_lock / with_write_lock
    read_lock_count,  \* database::_read_lock_count
    write_lock_count, \* database::_write_lock_count
    enable_require_locking, \* database::_enable_require_locking
    rw_manager, \* read_write_mutex_manager: [locks, current_lock]
    disk,       \* the directory and shared_memory.bin in it
    handle      \* database::_segment, _data_dir, _file_size, _flock

filevars == <<segment, read_only, disk, handle>>

lockvars == <<mutex, thread, read_lock_count, write_lock_count,
              enable_require_locking, rw_manager>>

vars == <<idx, op, err, crashed, sessions, index_list, index_map, db_sessions,
          filevars, lockvars>>

NoSession == [live |-> FALSE]

\* ------------------------------------------------------------ undo_state
\* entry_objs is a history field: the live objects when the state was pushed.
undo_state(nid, rev, objs) ==
    [old_values |-> {}, removed_values |-> {}, new_ids |-> {},
     old_next_id |-> nid, revision |-> rev, entry_objs |-> objs]

\* generic_index after construction
generic_index ==
    [indices |-> {}, next_id |-> 0, revision |-> 0, stack |-> <<>>]

HasId(S, i) == \E o \in S : o.id = i
ById(S, i) == CHOOSE o \in S : o.id = i
IdsOf(S) == {o.id : o \in S}
MinOf(S) == CHOOSE i \in S : \A j \in S : i <= j
Back(s) == s[Len(s)]
PopBack(s) == SubSeq(s, 1, Len(s) - 1)
PopFront(s) == SubSeq(s, 2, Len(s))
SetBack(I, h) == [I EXCEPT !.stack = [@ EXCEPT ![Len(@)] = h]]

\* ------------------------------------------- boost::multi_index_container
\* an insert or a modify is rejected when it collides on a unique index
Collides(objs, o) == \E p \in objs : p.id = o.id \/ p.key = o.key

ContainerEmplace(objs, o) ==
    IF Collides(objs, o) THEN [ok |-> FALSE, objs |-> objs]
    ELSE [ok |-> TRUE, objs |-> objs \cup {o}]

\* modify(position, mod) without rollback: a colliding element is erased
ContainerModify(objs, i, o) ==
    LET rest == {p \in objs : p.id # i}
    IN  IF Collides(rest, o) THEN [ok |-> FALSE, objs |-> rest]
        ELSE [ok |-> TRUE, objs |-> rest \cup {o}]

ContainerErase(objs, i) == {p \in objs : p.id # i}

\* ---------------------------------------------------------- generic_index
enabled(I) == Len(I.stack) > 0

\* on_modify that copies the object at every call (a mutant of on_modify)
on_modify_always(I, v) ==
    IF ~enabled(I) THEN I
    ELSE LET head == Back(I.stack)
         IN  IF v.id \in head.new_ids THEN I
             ELSE SetBack(I, [head EXCEPT !.old_values = @ \cup {v}])

on_modify(I, v) ==
    IF ~enabled(I) THEN I
    ELSE LET head == Back(I.stack)
         IN  IF v.id \in head.new_ids THEN I
             ELSE IF HasId(head.old_values, v.id) THEN I
             ELSE SetBack(I, [head EXCEPT !.old_values = @ \cup {v}])

\* on_remove that leaves the moved entry in old_values (a mutant of on_remove)
on_remove_keeps_old(I, v) ==
    IF ~enabled(I) THEN I
    ELSE LET head == Back(I.stack)
         IN  IF v.id \in head.new_ids
             THEN SetBack(I, [head EXCEPT !.new_ids = @ \ {v.id}])
             ELSE IF HasId(head.old_values, v.id)
             THEN SetBack(I, [head EXCEPT
                        !.removed_values = @ \cup {ById(head.old_values, v.id)}])
             ELSE IF HasId(head.removed_values, v.id) THEN I
             ELSE SetBack(I, [head EXCEPT !.removed_values = @ \cup {v}])

on_remove(I, v) ==
    IF ~enabled(I) THEN I
    ELSE LET head == Back(I.stack)
         IN  IF v.id \in head.new_ids
             THEN SetBack(I, [head EXCEPT !.new_ids = @ \ {v.id}])
             ELSE IF HasId(head.old_values, v.id)
             THEN SetBack(I, [head EXCEPT
                        !.removed_values = @ \cup {ById(head.old_values, v.id)},
                        !.old_values = ContainerErase(@, v.id)])
             ELSE IF HasId(head.removed_values, v.id) THEN I
             ELSE SetBack(I, [head EXCEPT !.removed_values = @ \cup {v}])

on_create(I, v) ==
    IF ~enabled(I) THEN I
    ELSE LET head == Back(I.stack)
         IN  SetBack(I, [head EXCEPT !.new_ids = @ \cup {v.id}])

\* emplace that counts the id before the insert is known to have succeeded
\* (a mutant of emplace)
emplace_counts_first(I, k) ==
    LET new_id == I.next_id
        insert_result == ContainerEmplace(I.indices, [id |-> new_id, key |-> k])
    IN  IF ~insert_result.ok
        THEN [idx |-> [I EXCEPT !.next_id = @ + 1], err |-> "uniqueness"]
        ELSE [idx |-> on_create([I EXCEPT !.indices = insert_result.objs,
                                          !.next_id = @ + 1],
                                [id |-> new_id, key |-> k]),
              err |-> "ok"]

\* emplace with a constructor that sets the key to k
emplace(I, k) ==
    LET new_id == I.next_id
        insert_result == ContainerEmplace(I.indices, [id |-> new_id, key |-> k])
    IN  IF ~insert_result.ok THEN [idx |-> I, err |-> "uniqueness"]
        ELSE [idx |-> on_create([I EXCEPT !.indices = insert_result.objs,
                                          !.next_id = @ + 1],
                                [id |-> new_id, key |-> k]),
              err |-> "ok"]

\* modify of the live object obj with a mutator that sets the key to k
modify(I, obj, k) ==
    LET J == on_modify(I, obj)
        r == ContainerModify(J.indices, obj.id, [id |-> obj.id, key |-> k])
    IN  [idx |-> [J EXCEPT !.indices = r.objs],
         err |-> IF r.ok THEN "ok" ELSE "uniqueness"]

remove(I, obj) ==
    [idx |-> [on_remove(I, obj) EXCEPT !.indices = ContainerErase(@, obj.id)],
     err |-> "ok"]

\* start_undo_session that leaves old_next_id at its default (a mutant of
\* start_undo_session)
start_undo_session_default(I) ==
    [I EXCEPT !.stack = Append(@, undo_state(0, I.revision + 1, I.indices)),
              !.revision = @ + 1]

start_undo_session(I) ==
    [I EXCEPT !.stack = Append(@, undo_state(I.next_id, I.revision + 1, I.indices)),
              !.revision = @ + 1]

\* Outcomes of undefined behaviour (find() returned end() and the iterator
\* is handed to modify or erase): the process dies, or the call has no effect.
UBOutcomes == {"abort", "skip"}

\* first loop of undo: old_values in ascending id order
RECURSIVE UndoOldValues(_, _, _)
UndoOldValues(objs, pending, ub) ==
    IF pending = {} THEN [objs |-> objs, err |-> "ok"]
    ELSE LET i == MinOf(IdsOf(pending))
             item == ById(pending, i)
             rest == {p \in pending : p.id # i}
         IN  IF ~HasId(objs, i)
             THEN IF ub = "abort" THEN [objs |-> objs, err |-> "abort"]
                  ELSE UndoOldValues(objs, rest, ub)
             ELSE LET r == ContainerModify(objs, i, item)
                  IN  IF ~r.ok THEN [objs |-> r.objs, err |-> "state_corrupt"]
                      ELSE UndoOldValues(r.objs, rest, ub)

\* second loop of undo: erase every id of new_ids
UndoNewIds(objs, new_ids, ub) ==
    IF (\E i \in new_ids : ~HasId(objs, i)) /\ ub = "abort"
    THEN [objs |-> objs, err |-> "abort"]
    ELSE [objs |-> {p \in objs : p.id \notin new_ids}, err |-> "ok"]

\* third loop of undo: removed_values in ascending id order
RECURSIVE UndoRemovedValues(_, _)
UndoRemovedValues(objs, pending) ==
    IF pending = {} THEN [objs |-> objs, err |-> "ok"]
    ELSE LET i == MinOf(IdsOf(pending))
             r == ContainerEmplace(objs, ById(pending, i))
         IN  IF ~r.ok THEN [objs |-> objs, err |-> "state_corrupt"]
             ELSE UndoRemovedValues(r.objs, {p \in pending : p.id # i})

\* undo that takes next_id from the oldest state of the stack, not the
\* newest (a mutant of undo)
undo_oldest_next_id(I, ub) ==
    IF ~enabled(I) THEN [idx |-> I, err |-> "ok"]
    ELSE LET head == Back(I.stack)
             a == UndoOldValues(I.indices, head.old_values, ub)
             b == UndoNewIds(a.objs, head.new_ids, ub)
             c == UndoRemovedValues(b.objs, head.removed_values)
         IN  IF a.err # "ok"
             THEN [idx |-> [I EXCEPT !.indices = a.objs], err |-> a.err]
             ELSE IF b.err # "ok"
             THEN [idx |-> [I EXCEPT !.indices = b.objs], err |-> b.err]
             ELSE IF c.err # "ok"
             THEN [idx |-> [I EXCEPT !.indices = c.objs,
                                     !.next_id = I.stack[1].old_next_id],
                   err |-> c.err]
             ELSE [idx |-> [I EXCEPT !.indices = c.objs,
                                     !.next_id = I.stack[1].old_next_id,
                                     !.stack = PopBack(@),
                                     !.revision = @ - 1],
                   err |-> "ok"]

\* undo that pops the state without lowering the revision (a mutant of undo)
undo_keeps_revision(I, ub) ==
    IF ~enabled(I) THEN [idx |-> I, err |-> "ok"]
    ELSE LET head == Back(I.stack)
             a == UndoOldValues(I.indices, head.old_values, ub)
             b == UndoNewIds(a.objs, head.new_ids, ub)
             c == UndoRemovedValues(b.objs, head.removed_values)
         IN  IF a.err # "ok"
             THEN [idx |-> [I EXCEPT !.indices = a.objs], err |-> a.err]
             ELSE IF b.err # "ok"
             THEN [idx |-> [I EXCEPT !.indices = b.objs], err |-> b.err]
             ELSE IF c.err # "ok"
             THEN [idx |-> [I EXCEPT !.indices = c.objs,
                                     !.next_id = head.old_next_id],
                   err |-> c.err]
             ELSE [idx |-> [I EXCEPT !.indices = c.objs,
                                     !.next_id = head.old_next_id,
                                     !.stack = PopBack(@)],
                   err |-> "ok"]

undo(I, ub) ==
    IF ~enabled(I) THEN [idx |-> I, err |-> "ok"]
    ELSE LET head == Back(I.stack)
             a == UndoOldValues(I.indices, head.old_values, ub)
             b == UndoNewIds(a.objs, head.new_ids, ub)
             c == UndoRemovedValues(b.objs, head.removed_values)
         IN  IF a.err # "ok"
             THEN [idx |-> [I EXCEPT !.indices = a.objs], err |-> a.err]
             ELSE IF b.err # "ok"
             THEN [idx |-> [I EXCEPT !.indices = b.objs], err |-> b.err]
             ELSE IF c.err # "ok"
             THEN [idx |-> [I EXCEPT !.indices = c.objs,
                                     !.next_id = head.old_next_id],
                   err |-> c.err]
             ELSE [idx |-> [I EXCEPT !.indices = c.objs,
                                     !.next_id = head.old_next_id,
                                     !.stack = PopBack(@),
                                     !.revision = @ - 1],
                   err |-> "ok"]

\* the merge of state (B) into prev_state (A), loop by loop
SquashOldValues(A, B) ==
    [A EXCEPT !.old_values = @ \cup
        {item \in B.old_values :
            /\ item.id \notin A.new_ids
            /\ ~HasId(A.old_values, item.id)}]

SquashNewIds(A, B) == [A EXCEPT !.new_ids = @ \cup B.new_ids]

\* the removed_values loop that keeps the newer pre-image for upd + del
\* (a mutant of SquashRemovedValues)
SquashRemovedValuesNewer(A, B) ==
    LET dropNew == {o \in B.removed_values : o.id \in A.new_ids}
        moveOld == {o \in B.removed_values \ dropNew : HasId(A.old_values, o.id)}
        copyDel == (B.removed_values \ dropNew) \ moveOld
    IN  [A EXCEPT
            !.new_ids = @ \ IdsOf(dropNew),
            !.removed_values = (@ \cup moveOld)
                                  \cup {o \in copyDel : ~HasId(@, o.id)},
            !.old_values = {p \in @ : p.id \notin IdsOf(moveOld)}]

SquashRemovedValues(A, B) ==
    LET dropNew == {o \in B.removed_values : o.id \in A.new_ids}
        moveOld == {o \in B.removed_values \ dropNew : HasId(A.old_values, o.id)}
        copyDel == (B.removed_values \ dropNew) \ moveOld
    IN  [A EXCEPT
            !.new_ids = @ \ IdsOf(dropNew),
            !.removed_values = (@ \cup {ById(A.old_values, o.id) : o \in moveOld})
                                  \cup {o \in copyDel : ~HasId(@, o.id)},
            !.old_values = {p \in @ : p.id \notin IdsOf(moveOld)}]

\* the two assert() of squash: del+upd and del+del do not happen
SquashAsserts(A, B) ==
    /\ \A item \in B.old_values :
          (item.id \notin A.new_ids /\ ~HasId(A.old_values, item.id))
             => ~HasId(A.removed_values, item.id)
    /\ \A o \in B.removed_values :
          (o.id \notin A.new_ids /\ ~HasId(A.old_values, o.id))
             => ~HasId(A.removed_values, o.id)

\* squash that merges without lowering the revision (a mutant of squash)
squash_keeps_revision(I) ==
    IF ~enabled(I) THEN I
    ELSE IF Len(I.stack) = 1 THEN [I EXCEPT !.stack = PopFront(@)]
    ELSE LET state == Back(I.stack)
             prev_state == I.stack[Len(I.stack) - 1]
             merged == SquashRemovedValues(
                          SquashNewIds(SquashOldValues(prev_state, state), state),
                          state)
         IN  [I EXCEPT !.stack = Append(SubSeq(@, 1, Len(@) - 2), merged)]

\* squash that rolls a single state back instead of discarding it
\* (a mutant of squash)
squash_rolls_back(I) ==
    IF ~enabled(I) THEN I
    ELSE IF Len(I.stack) = 1 THEN undo(I, "skip").idx
    ELSE LET state == Back(I.stack)
             prev_state == I.stack[Len(I.stack) - 1]
             merged == SquashRemovedValues(
                          SquashNewIds(SquashOldValues(prev_state, state), state),
                          state)
         IN  [I EXCEPT !.stack = Append(SubSeq(@, 1, Len(@) - 2), merged),
                       !.revision = @ - 1]

squash(I) ==
    IF ~enabled(I) THEN I
    ELSE IF Len(I.stack) = 1 THEN [I EXCEPT !.stack = PopFront(@)]
    ELSE LET state == Back(I.stack)
             prev_state == I.stack[Len(I.stack) - 1]
             merged == SquashRemovedValues(
                          SquashNewIds(SquashOldValues(prev_state, state), state),
                          state)
         IN  [I EXCEPT !.stack = Append(SubSeq(@, 1, Len(@) - 2), merged),
                       !.revision = @ - 1]

\* commit that stops at revision itself (a mutant of commit)
RECURSIVE commit_strict(_, _)
commit_strict(I, revision) ==
    IF Len(I.stack) > 0 /\ I.stack[1].revision < revision
    THEN commit_strict([I EXCEPT !.stack = PopFront(@)], revision)
    ELSE I

RECURSIVE commit(_, _)
commit(I, revision) ==
    IF Len(I.stack) > 0 /\ I.stack[1].revision <= revision
    THEN commit([I EXCEPT !.stack = PopFront(@)], revision)
    ELSE I

RECURSIVE undo_all(_, _)
undo_all(I, ub) ==
    IF ~enabled(I) THEN [idx |-> I, err |-> "ok"]
    ELSE LET r == undo(I, ub)
         IN  IF r.err # "ok" THEN r ELSE undo_all(r.idx, ub)

\* set_revision without the check of the stack (a mutant of set_revision)
set_revision_unchecked(I, revision) ==
    [idx |-> [I EXCEPT !.revision = revision], err |-> "ok"]

set_revision(I, revision) ==
    IF Len(I.stack) # 0 THEN [idx |-> I, err |-> "invalid_state"]
    ELSE [idx |-> [I EXCEPT !.revision = revision], err |-> "ok"]

\* ------------------------------------------------------------ lock state
\* ------------------------------------------------ the file and the handle
\* struct environment_check of the running process
environment_check ==
    [compiler_version |-> "this", debug |-> FALSE, apple |-> FALSE,
     windows |-> FALSE]

\* the one directory of the model, and the empty path of a closed handle
TheDir == "dir"
NoDir == ""

\* a directory without shared_memory.bin; locked: another process holds
\* the file lock
NoFile(dir_exists, locked) ==
    [dir |-> dir_exists, bin |-> FALSE, size |-> 0, has_env |-> FALSE,
     env |-> environment_check, locked |-> locked]

\* a handle on which open has not been called; flags is a history field:
\* the flags of the last open that returned
ClosedHandle ==
    [mapped |-> FALSE, data_dir |-> NoDir, file_size |-> 0, flock |-> FALSE,
     flags |-> "none"]

\* the file and the handle after open(dir, read_write, 1) in a new directory
OpenedDisk ==
    [dir |-> TRUE, bin |-> TRUE, size |-> 1, has_env |-> TRUE,
     env |-> environment_check, locked |-> FALSE]

OpenedHandle ==
    [mapped |-> TRUE, data_dir |-> TheDir, file_size |-> 1, flock |-> TRUE,
     flags |-> "read_write"]

Threads == 1..MaxThreads
NoThread == 0

\* boost::shared_mutex after construction: no shared and no exclusive owner
read_write_mutex == [shared |-> {}, exclusive |-> NoThread]

\* read_write_mutex_manager after construction
read_write_mutex_manager ==
    [locks |-> [i \in 0..(CHAINBASE_NUM_RW_LOCKS - 1) |-> read_write_mutex],
     current_lock |-> 0]

\* a thread that is in no call of the lock interface
NoCall == [pc |-> "idle"]

\* ------------------------------------------------------------------ Init
Init ==
    /\ idx = [k \in AllKinds |-> generic_index]
    /\ op = "init"
    /\ err = "ok"
    /\ crashed = FALSE
    /\ sessions = [s \in 1..MaxSessions |-> NoSession]
    /\ index_list = <<>>
    /\ index_map = [key \in RegistryKeys |-> FALSE]
    /\ db_sessions = [s \in 1..MaxDbSessions |-> NoSession]
    /\ segment = [k \in AllKinds |-> "none"]
    /\ read_only = FALSE
    /\ mutex = read_write_mutex
    /\ thread = [t \in Threads |-> NoCall]
    /\ read_lock_count = 0
    /\ write_lock_count = 0
    /\ enable_require_locking = FALSE
    /\ rw_manager = read_write_mutex_manager
    /\ disk = OpenedDisk
    /\ handle = OpenedHandle

\* the result r of an operation on index k: "abort" ends the process
Outcome(name, k, r) ==
    /\ op' = name
    /\ idx' = [idx EXCEPT ![k] = r.idx]
    /\ err' = r.err
    /\ crashed' = (r.err = "abort")

\* --------------------------------------- operations on one generic_index
Emplace(k, key) ==
    /\ ~crashed
    /\ idx[k].next_id < MaxId
    /\ Outcome("emplace", k, emplace(idx[k], key))
    /\ UNCHANGED <<sessions, index_list, index_map, db_sessions,
                   filevars, lockvars>>

Modify(k, obj, key) ==
    /\ ~crashed
    /\ obj \in idx[k].indices
    /\ Outcome("modify", k, modify(idx[k], obj, key))
    /\ UNCHANGED <<sessions, index_list, index_map, db_sessions,
                   filevars, lockvars>>

Remove(k, obj) ==
    /\ ~crashed
    /\ obj \in idx[k].indices
    /\ Outcome("remove", k, remove(idx[k], obj))
    /\ UNCHANGED <<sessions, index_list, index_map, db_sessions,
                   filevars, lockvars>>

\* start_undo_session(true) whose session is pushed at once
StartPushed(k) ==
    /\ ~crashed
    /\ Len(idx[k].stack) < MaxDepth
    /\ idx[k].revision < MaxRev
    /\ Outcome("start_undo_session", k, [idx |-> start_undo_session(idx[k]), err |-> "ok"])
    /\ UNCHANGED <<sessions, index_list, index_map, db_sessions,
                   filevars, lockvars>>

Undo(k) ==
    /\ ~crashed
    /\ \E ub \in UBOutcomes : Outcome("undo", k, undo(idx[k], ub))
    /\ UNCHANGED <<sessions, index_list, index_map, db_sessions,
                   filevars, lockvars>>

Squash(k) ==
    /\ ~crashed
    /\ \/ /\ Len(idx[k].stack) >= 2
          /\ ~SquashAsserts(idx[k].stack[Len(idx[k].stack) - 1], Back(idx[k].stack))
          /\ Outcome("squash", k, [idx |-> idx[k], err |-> "abort"])
       \/ Outcome("squash", k, [idx |-> squash(idx[k]), err |-> "ok"])
    /\ UNCHANGED <<sessions, index_list, index_map, db_sessions,
                   filevars, lockvars>>

Commit(k, r) ==
    /\ ~crashed
    /\ Outcome("commit", k, [idx |-> commit(idx[k], r), err |-> "ok"])
    /\ UNCHANGED <<sessions, index_list, index_map, db_sessions,
                   filevars, lockvars>>

UndoAll(k) ==
    /\ ~crashed
    /\ \E ub \in UBOutcomes : Outcome("undo_all", k, undo_all(idx[k], ub))
    /\ UNCHANGED <<sessions, index_list, index_map, db_sessions,
                   filevars, lockvars>>

SetRevision(k, r) ==
    /\ ~crashed
    /\ Outcome("set_revision", k, set_revision(idx[k], r))
    /\ UNCHANGED <<sessions, index_list, index_map, db_sessions,
                   filevars, lockvars>>

NextIndex ==
    \/ \E key \in Keys : Emplace(TheKind, key)
    \/ \E obj \in idx[TheKind].indices, key \in Keys : Modify(TheKind, obj, key)
    \/ \E obj \in idx[TheKind].indices : Remove(TheKind, obj)
    \/ StartPushed(TheKind)
    \/ Undo(TheKind)
    \/ Squash(TheKind)
    \/ \E r \in Revs : Commit(TheKind, r)
    \/ UndoAll(TheKind)
    \/ \E r \in Revs : SetRevision(TheKind, r)

Spec == Init /\ [][NextIndex]_vars

\* ------------------------------------------------ generic_index::session
\* session(generic_index&, revision) without the test for -1 (a mutant of
\* session)
session_armed(k, revision) ==
    [live |-> TRUE, index |-> k, apply |-> TRUE, revision |-> revision]

\* session(generic_index&, revision): armed unless the revision is -1
session(k, revision) ==
    [live |-> TRUE, index |-> k, apply |-> (revision # -1), revision |-> revision]

FreeSlot(s) == ~sessions[s].live
Armed(s) == sessions[s].live /\ sessions[s].apply

\* start_undo_session(enabled); the returned temporary is the caller's handle
StartUndoSession(k, s, en) ==
    /\ ~crashed
    /\ FreeSlot(s)
    /\ IF en
       THEN /\ Len(idx[k].stack) < MaxDepth
            /\ idx[k].revision < MaxRev
            /\ Outcome("start_undo_session", k,
                       [idx |-> start_undo_session(idx[k]), err |-> "ok"])
            /\ sessions' = [sessions EXCEPT ![s] = session(k, idx[k].revision + 1)]
       ELSE /\ Outcome("start_undo_session", k, [idx |-> idx[k], err |-> "ok"])
            /\ sessions' = [sessions EXCEPT ![s] = session(k, -1)]
    /\ UNCHANGED <<index_list, index_map, db_sessions, filevars, lockvars>>

\* push() that forgets to disarm (a mutant of SessionPush)
SessionPushArmed(s) ==
    /\ ~crashed
    /\ sessions[s].live
    /\ op' = "session_push"
    /\ err' = "ok"
    /\ UNCHANGED <<idx, crashed, sessions, index_list, index_map, db_sessions,
                   filevars, lockvars>>

SessionPush(s) ==
    /\ ~crashed
    /\ sessions[s].live
    /\ op' = "session_push"
    /\ err' = "ok"
    /\ sessions' = [sessions EXCEPT ![s].apply = FALSE]
    /\ UNCHANGED <<idx, crashed, index_list, index_map, db_sessions,
                   filevars, lockvars>>

SessionSquash(s) ==
    /\ ~crashed
    /\ sessions[s].live
    /\ LET k == sessions[s].index
       IN  IF sessions[s].apply
           THEN \/ /\ Len(idx[k].stack) >= 2
                   /\ ~SquashAsserts(idx[k].stack[Len(idx[k].stack) - 1],
                                     Back(idx[k].stack))
                   /\ Outcome("session_squash", k, [idx |-> idx[k], err |-> "abort"])
                \/ Outcome("session_squash", k, [idx |-> squash(idx[k]), err |-> "ok"])
           ELSE Outcome("session_squash", k, [idx |-> idx[k], err |-> "ok"])
    /\ sessions' = [sessions EXCEPT ![s].apply = FALSE]
    /\ UNCHANGED <<index_list, index_map, db_sessions, filevars, lockvars>>

\* session::undo(): a throwing undo leaves the session armed
SessionUndo(s) ==
    /\ ~crashed
    /\ sessions[s].live
    /\ LET k == sessions[s].index
       IN  IF sessions[s].apply
           THEN \E ub \in UBOutcomes :
                  LET r == undo(idx[k], ub)
                  IN  /\ Outcome("session_undo", k, r)
                      /\ sessions' = [sessions EXCEPT
                                         ![s].apply = (r.err # "ok")]
           ELSE /\ Outcome("session_undo", k, [idx |-> idx[k], err |-> "ok"])
                /\ sessions' = sessions
    /\ UNCHANGED <<index_list, index_map, db_sessions, filevars, lockvars>>

\* ~session(): an exception that leaves the destructor ends the process
SessionDrop(s) ==
    /\ ~crashed
    /\ sessions[s].live
    /\ LET k == sessions[s].index
       IN  IF sessions[s].apply
           THEN \E ub \in UBOutcomes :
                  LET r == undo(idx[k], ub)
                  IN  Outcome("session_drop", k,
                              [r EXCEPT !.err = IF @ = "ok" THEN "ok" ELSE "abort"])
           ELSE Outcome("session_drop", k, [idx |-> idx[k], err |-> "ok"])
    /\ sessions' = [sessions EXCEPT ![s] = NoSession]
    /\ UNCHANGED <<index_list, index_map, db_sessions, filevars, lockvars>>

Slots == 1..MaxSessions

NextSession ==
    \/ \E key \in Keys : Emplace(TheKind, key)
    \/ \E obj \in idx[TheKind].indices, key \in Keys : Modify(TheKind, obj, key)
    \/ \E obj \in idx[TheKind].indices : Remove(TheKind, obj)
    \/ \E s \in Slots, en \in {TRUE} : StartUndoSession(TheKind, s, en)
    \/ \E s \in Slots : SessionPush(s)
    \/ \E s \in Slots : SessionSquash(s)
    \/ \E s \in Slots : SessionUndo(s)
    \/ \E s \in Slots : SessionDrop(s)
    \/ Undo(TheKind)
    \/ Squash(TheKind)
    \/ \E r \in Revs : Commit(TheKind, r)

SpecSession == Init /\ [][NextSession]_vars

\* ------------------------------------------------- moves of session handles
\* session(session&& mv): _index and _apply are taken from mv, _revision is
\* not: it keeps its default member initialiser
session_move(mv) == [mv EXCEPT !.revision = 0]

\* session(session&& mv) that leaves the source armed (a mutant of
\* SessionMoveConstruct)
SessionMoveConstructCopies(src, dst) ==
    /\ ~crashed
    /\ sessions[src].live
    /\ FreeSlot(dst)
    /\ op' = "session_move"
    /\ err' = "ok"
    /\ sessions' = [sessions EXCEPT ![dst] = session_move(sessions[src])]
    /\ UNCHANGED <<idx, crashed, index_list, index_map, db_sessions,
                   filevars, lockvars>>

\* session(session&& mv): the new handle dst is constructed from src
SessionMoveConstruct(src, dst) ==
    /\ ~crashed
    /\ sessions[src].live
    /\ FreeSlot(dst)
    /\ op' = "session_move"
    /\ err' = "ok"
    /\ sessions' = [sessions EXCEPT ![dst] = session_move(sessions[src]),
                                    ![src].apply = FALSE]
    /\ UNCHANGED <<idx, crashed, index_list, index_map, db_sessions,
                   filevars, lockvars>>

\* operator=(session&& mv): dst = std::move(src); _index and _revision of
\* dst stay as they are; an undo() that throws leaves both handles as they were
SessionMoveAssign(src, dst) ==
    /\ ~crashed
    /\ sessions[src].live
    /\ sessions[dst].live
    /\ LET k == sessions[dst].index
       IN  IF src # dst /\ sessions[dst].apply
           THEN \E ub \in UBOutcomes :
                  LET r == undo(idx[k], ub)
                  IN  /\ Outcome("session_assign", k, r)
                      /\ sessions' =
                            IF r.err # "ok" THEN sessions
                            ELSE [sessions EXCEPT ![dst].apply = sessions[src].apply,
                                                  ![src].apply = FALSE]
           ELSE /\ Outcome("session_assign", k, [idx |-> idx[k], err |-> "ok"])
                /\ sessions' =
                      IF src = dst THEN sessions
                      ELSE [sessions EXCEPT ![dst].apply = sessions[src].apply,
                                            ![src].apply = FALSE]
    /\ UNCHANGED <<index_list, index_map, db_sessions, filevars, lockvars>>

NextMove ==
    \/ \E key \in Keys : Emplace(TheKind, key)
    \/ \E obj \in idx[TheKind].indices, key \in Keys : Modify(TheKind, obj, key)
    \/ \E obj \in idx[TheKind].indices : Remove(TheKind, obj)
    \/ \E s \in Slots, en \in BOOLEAN : StartUndoSession(TheKind, s, en)
    \/ \E s \in Slots : SessionPush(s)
    \/ \E s \in Slots : SessionSquash(s)
    \/ \E s \in Slots : SessionUndo(s)
    \/ \E s \in Slots : SessionDrop(s)
    \/ \E src \in Slots, dst \in Slots : SessionMoveConstruct(src, dst)
    \/ \E src \in Slots, dst \in Slots : SessionMoveAssign(src, dst)

SpecMove == Init /\ [][NextMove]_vars

\* ---------------------------------------------------------------- database
\* session_impl(SessionType&& s) : _session(std::move(s))
session_impl(s) == session_move(s)

\* one index operation of a broadcast; ub also picks the build that decides
\* whether a failing assert() of squash ends the process
IndexCall(name, I, arg, ub) ==
    CASE name = "undo" -> undo(I, ub)
      [] name = "undo_all" -> undo_all(I, ub)
      [] name = "commit" -> [idx |-> commit(I, arg), err |-> "ok"]
      [] name = "set_revision" -> set_revision(I, arg)
      [] name = "start_undo_session" ->
            [idx |-> start_undo_session(I), err |-> "ok"]
      [] name = "squash" ->
            IF /\ Len(I.stack) >= 2
               /\ ~SquashAsserts(I.stack[Len(I.stack) - 1], Back(I.stack))
               /\ ub = "abort"
            THEN [idx |-> I, err |-> "abort"]
            ELSE [idx |-> squash(I), err |-> "ok"]

\* for (auto& item : list) item->name(arg): an exception ends the loop
RECURSIVE Broadcast(_, _, _, _, _)
Broadcast(name, list, ix, arg, ub) ==
    IF list = <<>> THEN [idx |-> ix, err |-> "ok"]
    ELSE LET k == Head(list)
             r == IndexCall(name, ix[k], arg, ub)
             jx == [ix EXCEPT ![k] = r.idx]
         IN  IF r.err # "ok" THEN [idx |-> jx, err |-> r.err]
             ELSE Broadcast(name, Tail(list), jx, arg, ub)

DbOutcome(name, r) ==
    /\ op' = name
    /\ idx' = r.idx
    /\ err' = r.err
    /\ crashed' = (r.err = "abort")

\* add_index<T>() that skips the test of the registry entry (a mutant of
\* add_index)
add_index_unchecked(k) ==
    LET type_id == registry_key(k)
    IN  IF read_only /\ segment[k] = "none"
        THEN /\ err' = "not_found"
             /\ UNCHANGED <<index_map, index_list, segment>>
        ELSE IF segment[k] = "invalid"
        THEN /\ err' = "binary_incompatible"
             /\ UNCHANGED <<index_map, index_list, segment>>
        ELSE /\ err' = "ok"
             /\ segment' = [segment EXCEPT ![k] = "valid"]
             /\ index_map' = [index_map EXCEPT ![type_id] = TRUE]
             /\ index_list' = Append(index_list, k)

\* add_index<T>(): the registry entry is tested first; the index is found or
\* constructed in the segment under the name of its kind, or only looked up
\* when the database is read-only, and validated before it is registered
add_index(k) ==
    LET type_id == registry_key(k)
    IN  IF index_map[type_id]
        THEN /\ err' = "duplicate"
             /\ UNCHANGED <<index_map, index_list, segment>>
        ELSE IF read_only /\ segment[k] = "none"
        THEN /\ err' = "not_found"
             /\ UNCHANGED <<index_map, index_list, segment>>
        ELSE IF segment[k] = "invalid"
        THEN /\ err' = "binary_incompatible"
             /\ UNCHANGED <<index_map, index_list, segment>>
        ELSE /\ err' = "ok"
             /\ segment' = [segment EXCEPT ![k] = "valid"]
             /\ index_map' = [index_map EXCEPT ![type_id] = TRUE]
             /\ index_list' = Append(index_list, k)

DbAddIndex(k) ==
    /\ ~crashed
    /\ op' = "add_index"
    /\ add_index(k)
    /\ UNCHANGED <<idx, crashed, sessions, db_sessions, read_only, disk, handle,
                   lockvars>>

Registered == {index_list[i] : i \in 1..Len(index_list)}

DbCreate(k, key) ==
    /\ ~crashed
    /\ k \in Registered
    /\ idx[k].next_id < DbMaxId
    /\ Outcome("create", k, emplace(idx[k], key))
    /\ UNCHANGED <<sessions, index_list, index_map, db_sessions,
                   filevars, lockvars>>

\* the sub-sessions of a composite session, one per registered index;
\* started is a history field: the revision each index entered
RECURSIVE SubSessions(_, _)
SubSessions(list, ix) ==
    IF list = <<>> THEN <<>>
    ELSE <<session_impl(session(Head(list), ix[Head(list)].revision))>>
            \o SubSessions(Tail(list), ix)

\* database::session(vector&&)
db_session(subs, ix) ==
    [live |-> TRUE,
     index_sessions |-> subs,
     revision |-> IF Len(subs) > 0 THEN subs[1].revision ELSE -1,
     started |-> [k \in {subs[i].index : i \in 1..Len(subs)} |-> ix[k].revision]]

DbStartUndoSession(s) ==
    /\ ~crashed
    /\ ~db_sessions[s].live
    /\ \A k \in Registered :
          Len(idx[k].stack) < MaxDepth /\ idx[k].revision < MaxRev
    /\ LET r == Broadcast("start_undo_session", index_list, idx, 0, "skip")
       IN  /\ DbOutcome("start_undo_session", r)
           /\ db_sessions' = [db_sessions EXCEPT
                  ![s] = db_session(SubSessions(index_list, r.idx), r.idx)]
    /\ UNCHANGED <<sessions, index_list, index_map, filevars, lockvars>>

\* database::session::session(): no sub-session; _revision keeps its default
\* member initialiser
db_session_default ==
    [live |-> TRUE, index_sessions |-> <<>>, revision |-> -1,
     started |-> [k \in {} |-> 0]]

\* start_undo_session(false) of the database: no index is called and the
\* default-constructed composite session is returned
DbStartUndoSessionDisabled(s) ==
    /\ ~crashed
    /\ ~db_sessions[s].live
    /\ op' = "start_undo_session"
    /\ err' = "ok"
    /\ db_sessions' = [db_sessions EXCEPT ![s] = db_session_default]
    /\ UNCHANGED <<idx, crashed, sessions, index_list, index_map,
                   filevars, lockvars>>

\* database::session::push(): every sub-session is disarmed, then destroyed
DbSessionPush(s) ==
    /\ ~crashed
    /\ db_sessions[s].live
    /\ op' = "session_push"
    /\ err' = "ok"
    /\ db_sessions' = [db_sessions EXCEPT ![s].index_sessions = <<>>]
    /\ UNCHANGED <<idx, crashed, sessions, index_list, index_map,
                   filevars, lockvars>>

\* the kinds of the armed sub-sessions, in order
RECURSIVE ArmedKinds(_)
ArmedKinds(subs) ==
    IF subs = <<>> THEN <<>>
    ELSE (IF Head(subs).apply THEN <<Head(subs).index>> ELSE <<>>)
            \o ArmedKinds(Tail(subs))

\* database::session::undo() and squash(): a throw leaves the vector as it is
DbSessionEnd(s, name, call) ==
    /\ ~crashed
    /\ db_sessions[s].live
    /\ \E ub \in UBOutcomes :
          LET r == Broadcast(call, ArmedKinds(db_sessions[s].index_sessions),
                             idx, 0, ub)
          IN  /\ DbOutcome(name, r)
              /\ db_sessions' = [db_sessions EXCEPT ![s].index_sessions =
                                    IF r.err = "ok" THEN <<>> ELSE @]
    /\ UNCHANGED <<sessions, index_list, index_map, filevars, lockvars>>

DbSessionUndo(s) == DbSessionEnd(s, "session_undo", "undo")

DbSessionSquash(s) == DbSessionEnd(s, "session_squash", "squash")

\* database::~session(): undo(); an exception out of it ends the process
DbSessionDrop(s) ==
    /\ ~crashed
    /\ db_sessions[s].live
    /\ \E ub \in UBOutcomes :
          LET r == Broadcast("undo", ArmedKinds(db_sessions[s].index_sessions),
                             idx, 0, ub)
          IN  DbOutcome("session_drop",
                        [r EXCEPT !.err = IF @ = "ok" THEN "ok" ELSE "abort"])
    /\ db_sessions' = [db_sessions EXCEPT ![s] = NoSession]
    /\ UNCHANGED <<sessions, index_list, index_map, filevars, lockvars>>

DbBroadcast(name, arg) ==
    /\ ~crashed
    /\ \E ub \in UBOutcomes :
          DbOutcome(name, Broadcast(name, index_list, idx, arg, ub))
    /\ UNCHANGED <<sessions, index_list, index_map, db_sessions,
                   filevars, lockvars>>

DbUndo == DbBroadcast("undo", 0)

DbSquash == DbBroadcast("squash", 0)

DbCommit(r) == DbBroadcast("commit", r)

DbUndoAll == DbBroadcast("undo_all", 0)

DbSetRevision(r) == DbBroadcast("set_revision", r)

\* commit(s.revision()) for a composite session s the caller still holds
DbCommitSession(s) ==
    /\ db_sessions[s].live
    /\ DbCommit(db_sessions[s].revision)

DbSlots == 1..MaxDbSessions

NextDb ==
    \/ \E k \in Kinds : DbAddIndex(k)
    \/ \E k \in Kinds, key \in Keys : DbCreate(k, key)
    \/ \E s \in DbSlots : DbStartUndoSession(s)
    \/ \E s \in DbSlots : DbSessionPush(s)
    \/ \E s \in DbSlots : DbSessionUndo(s)
    \/ \E s \in DbSlots : DbSessionSquash(s)
    \/ \E s \in DbSlots : DbSessionDrop(s)
    \/ DbUndo
    \/ DbSquash
    \/ \E r \in Revs : DbCommit(r)
    \/ \E s \in DbSlots : DbCommitSession(s)
    \/ DbUndoAll
    \/ \E r \in Revs : DbSetRevision(r)

SpecDb == Init /\ [][NextDb]_vars

\* ------------------------------------------------------------- the registry
\* the database after open(): read_write or read_only, on a file in which an
\* earlier run has constructed some indices, with the layout of this binary
\* ("valid") or with another layout ("invalid")
InitOpened ==
    /\ idx = [k \in AllKinds |-> generic_index]
    /\ op = "init"
    /\ err = "ok"
    /\ crashed = FALSE
    /\ sessions = [s \in 1..MaxSessions |-> NoSession]
    /\ index_list = <<>>
    /\ index_map = [key \in RegistryKeys |-> FALSE]
    /\ db_sessions = [s \in 1..MaxDbSessions |-> NoSession]
    /\ segment \in [AllKinds -> {"none", "valid", "invalid"}]
    /\ read_only \in BOOLEAN
    /\ mutex = read_write_mutex
    /\ thread = [t \in Threads |-> NoCall]
    /\ read_lock_count = 0
    /\ write_lock_count = 0
    /\ enable_require_locking = FALSE
    /\ rw_manager = read_write_mutex_manager
    /\ disk = OpenedDisk
    /\ handle = IF read_only
                THEN [OpenedHandle EXCEPT !.flock = FALSE, !.flags = "read_only"]
                ELSE OpenedHandle

NextRegistry == \E k \in AllKinds : DbAddIndex(k)

SpecRegistry == InitOpened /\ [][NextRegistry]_vars

\* ------------------------------------------------------- disabled sessions
NextInert ==
    \/ \E key \in Keys : Emplace(TheKind, key)
    \/ \E obj \in idx[TheKind].indices, key \in Keys : Modify(TheKind, obj, key)
    \/ \E obj \in idx[TheKind].indices : Remove(TheKind, obj)
    \/ \E s \in Slots, en \in BOOLEAN : StartUndoSession(TheKind, s, en)
    \/ \E s \in Slots : SessionPush(s)
    \/ \E s \in Slots : SessionSquash(s)
    \/ \E s \in Slots : SessionUndo(s)
    \/ \E s \in Slots : SessionDrop(s)
    \/ \E s \in DbSlots : DbStartUndoSessionDisabled(s)
    \/ \E s \in DbSlots : DbSessionPush(s)
    \/ \E s \in DbSlots : DbSessionUndo(s)
    \/ \E s \in DbSlots : DbSessionSquash(s)
    \/ \E s \in DbSlots : DbSessionDrop(s)

SpecInert == Init /\ [][NextInert]_vars

\* ------------------------------------- with_read_lock and with_write_lock
\* The model is of a build with CHAINBASE_CHECK_LOCKING defined. A call is a
\* sequence of steps of its thread; the thread record holds the locals.
WaitMicros == {0, 1000000}
RetryCounts == 0..MaxRetries

\* boost::shared_mutex: what a lock attempt finds
CanLockShared(m) == m.exclusive = NoThread
CanLock(m) == m.exclusive = NoThread /\ m.shared = {}

\* a writer waits for m: boost lets no new reader in meanwhile, so a timed
\* attempt of a reader may time out although no writer owns m
WriterWaits == \E u \in Threads :
                  thread[u].pc \in {"lock", "timed_lock"} /\ thread[u].kind = "write"

Acquire(m, t, kind) ==
    IF kind = "read" THEN [m EXCEPT !.shared = @ \cup {t}]
    ELSE [m EXCEPT !.exclusive = t]

Holds(m, t) == t \in m.shared \/ m.exclusive = t

Release(m, t) ==
    [shared |-> m.shared \ {t},
     exclusive |-> IF m.exclusive = t THEN NoThread ELSE m.exclusive]

\* the locals of a call at its entry: the deferred lock and the parameters
CallFrame(kind, wait_micro, max_retries) ==
    [pc |-> "incr_load", kind |-> kind,
     timed |-> (wait_micro # 0 /\ max_retries # 0),
     max_retries |-> max_retries, retry |-> 0, timeouts |-> 0,
     tmp |-> 0, owns |-> FALSE, ran |-> 0, result |-> "ok"]

CountsInRange ==
    /\ read_lock_count \in (-MaxDrift)..MaxDrift
    /\ write_lock_count \in (-MaxDrift)..MaxDrift

\* with_read_lock(callback) with _read_wait_micro and _max_read_wait_retries
\* set to wait_micro and max_retries
WithReadLock(t, wait_micro, max_retries) ==
    /\ ~crashed
    /\ thread[t].pc = "idle"
    /\ CountsInRange
    /\ thread' = [thread EXCEPT ![t] = CallFrame("read", wait_micro, max_retries)]
    /\ op' = "with_read_lock"
    /\ err' = "ok"
    /\ UNCHANGED <<idx, crashed, sessions, index_list, index_map, db_sessions,
                   filevars, mutex, read_lock_count, write_lock_count,
                   enable_require_locking, rw_manager>>

\* with_write_lock without the test of _read_only (a mutant of WithWriteLock)
WithWriteLockUnchecked(t, wait_micro, max_retries) ==
    /\ ~crashed
    /\ thread[t].pc = "idle"
    /\ CountsInRange
    /\ op' = "with_write_lock"
    /\ err' = "ok"
    /\ thread' = [thread EXCEPT
                    ![t] = CallFrame("write", wait_micro, max_retries)]
    /\ UNCHANGED <<idx, crashed, sessions, index_list, index_map, db_sessions,
                   filevars, mutex, read_lock_count, write_lock_count,
                   enable_require_locking, rw_manager>>

\* with_write_lock(write_wait_micro, max_write_wait_retries, callback); the
\* weak and the strong variant pass the members and fixed numbers for them
WithWriteLock(t, wait_micro, max_retries) ==
    /\ ~crashed
    /\ thread[t].pc = "idle"
    /\ CountsInRange
    /\ op' = "with_write_lock"
    /\ IF read_only
       THEN /\ err' = "invalid_state"
            /\ thread' = thread
       ELSE /\ err' = "ok"
            /\ thread' = [thread EXCEPT
                            ![t] = CallFrame("write", wait_micro, max_retries)]
    /\ UNCHANGED <<idx, crashed, sessions, index_list, index_map, db_sessions,
                   filevars, mutex, read_lock_count, write_lock_count,
                   enable_require_locking, rw_manager>>

\* the lock count a call of this kind counts itself in
LockCount(kind) == IF kind = "read" THEN read_lock_count ELSE write_lock_count

SetLockCount(kind, v) ==
    IF kind = "read"
    THEN read_lock_count' = v /\ write_lock_count' = write_lock_count
    ELSE write_lock_count' = v /\ read_lock_count' = read_lock_count

\* int_incrementer: ++_target and --_target on a plain int32_t that other
\* threads write too; the load and the store are separate steps
IncrLoad(t) ==
    /\ thread[t].pc \in {"incr_load", "decr_load"}
    /\ thread' = [thread EXCEPT
                    ![t].tmp = LockCount(thread[t].kind),
                    ![t].pc = IF @ = "incr_load" THEN "incr_store" ELSE "decr_store"]
    /\ UNCHANGED <<idx, op, err, crashed, sessions, index_list, index_map,
                   db_sessions, filevars, mutex, read_lock_count,
                   write_lock_count, enable_require_locking, rw_manager>>

IncrStore(t) ==
    /\ thread[t].pc = "incr_store"
    /\ SetLockCount(thread[t].kind, thread[t].tmp + 1)
    /\ thread' = [thread EXCEPT
                    ![t].pc = IF thread[t].timed THEN "timed_lock" ELSE "lock"]
    /\ UNCHANGED <<idx, op, err, crashed, sessions, index_list, index_map,
                   db_sessions, filevars, mutex, enable_require_locking,
                   rw_manager>>

CanAcquire(t) ==
    IF thread[t].kind = "read" THEN CanLockShared(mutex) ELSE CanLock(mutex)

\* lock.lock(): returns when the mutex is acquired
Lock(t) ==
    /\ thread[t].pc = "lock"
    /\ CanAcquire(t)
    /\ mutex' = Acquire(mutex, t, thread[t].kind)
    /\ thread' = [thread EXCEPT ![t].pc = "callback", ![t].owns = TRUE,
                                ![t].ran = @ + 1]
    /\ UNCHANGED <<idx, op, err, crashed, sessions, index_list, index_map,
                   db_sessions, filevars, read_lock_count, write_lock_count,
                   enable_require_locking, rw_manager>>

\* the retry loop that runs the callback when the budget is spent
\* (a mutant of TimedLock)
TimedLockProceeds(t) ==
    /\ thread[t].pc = "timed_lock"
    /\ \/ /\ CanAcquire(t)
          /\ mutex' = Acquire(mutex, t, thread[t].kind)
          /\ thread' = [thread EXCEPT ![t].pc = "callback", ![t].owns = TRUE,
                                      ![t].ran = @ + 1]
       \/ /\ ~CanAcquire(t) \/ (thread[t].kind = "read" /\ WriterWaits)
          /\ mutex' = mutex
          /\ thread' = [thread EXCEPT
                 ![t].timeouts = @ + 1,
                 ![t].retry = IF thread[t].retry >= thread[t].max_retries
                              THEN @ ELSE @ + 1,
                 ![t].pc = IF thread[t].retry >= thread[t].max_retries
                           THEN "callback" ELSE "timed_lock",
                 ![t].ran = IF thread[t].retry >= thread[t].max_retries
                            THEN @ + 1 ELSE @]
    /\ UNCHANGED <<idx, op, err, crashed, sessions, index_list, index_map,
                   db_sessions, filevars, read_lock_count, write_lock_count,
                   enable_require_locking, rw_manager>>

\* the retry loop that gives up one retry early (a mutant of TimedLock)
TimedLockEarly(t) ==
    /\ thread[t].pc = "timed_lock"
    /\ \/ /\ CanAcquire(t)
          /\ mutex' = Acquire(mutex, t, thread[t].kind)
          /\ thread' = [thread EXCEPT ![t].pc = "callback", ![t].owns = TRUE,
                                      ![t].ran = @ + 1]
       \/ /\ ~CanAcquire(t) \/ (thread[t].kind = "read" /\ WriterWaits)
          /\ mutex' = mutex
          /\ thread' = [thread EXCEPT
                 ![t].timeouts = @ + 1,
                 ![t].retry = IF thread[t].retry + 1 >= thread[t].max_retries
                              THEN @ ELSE @ + 1,
                 ![t].pc = IF thread[t].retry + 1 >= thread[t].max_retries
                           THEN "decr_load" ELSE "timed_lock",
                 ![t].result = IF thread[t].retry + 1 >= thread[t].max_retries
                               THEN "timeout" ELSE @]
    /\ UNCHANGED <<idx, op, err, crashed, sessions, index_list, index_map,
                   db_sessions, filevars, read_lock_count, write_lock_count,
                   enable_require_locking, rw_manager>>

\* one turn of for (retry = 0; ; ++retry): timed_lock succeeds, or it times
\* out and the loop goes on or throws
TimedLock(t) ==
    /\ thread[t].pc = "timed_lock"
    /\ \/ /\ CanAcquire(t)
          /\ mutex' = Acquire(mutex, t, thread[t].kind)
          /\ thread' = [thread EXCEPT ![t].pc = "callback", ![t].owns = TRUE,
                                      ![t].ran = @ + 1]
       \/ /\ ~CanAcquire(t) \/ (thread[t].kind = "read" /\ WriterWaits)
          /\ mutex' = mutex
          /\ thread' = [thread EXCEPT
                 ![t].timeouts = @ + 1,
                 ![t].retry = IF thread[t].retry >= thread[t].max_retries
                              THEN @ ELSE @ + 1,
                 ![t].pc = IF thread[t].retry >= thread[t].max_retries
                           THEN "decr_load" ELSE "timed_lock",
                 ![t].result = IF thread[t].retry >= thread[t].max_retries
                               THEN "timeout" ELSE @]
    /\ UNCHANGED <<idx, op, err, crashed, sessions, index_list, index_map,
                   db_sessions, filevars, read_lock_count, write_lock_count,
                   enable_require_locking, rw_manager>>

\* return callback(): the callback returns or raises
Callback(t, raises) ==
    /\ thread[t].pc = "callback"
    /\ thread' = [thread EXCEPT
                    ![t].pc = "decr_load",
                    ![t].result = IF raises THEN "callback_error" ELSE "ok"]
    /\ UNCHANGED <<idx, op, err, crashed, sessions, index_list, index_map,
                   db_sessions, filevars, mutex, read_lock_count,
                   write_lock_count, enable_require_locking, rw_manager>>

\* ~int_incrementer: the store of --_target
DecrStore(t) ==
    /\ thread[t].pc = "decr_store"
    /\ SetLockCount(thread[t].kind, thread[t].tmp - 1)
    /\ thread' = [thread EXCEPT ![t].pc = "unlock"]
    /\ UNCHANGED <<idx, op, err, crashed, sessions, index_list, index_map,
                   db_sessions, filevars, mutex, enable_require_locking,
                   rw_manager>>

\* the destructor of the lock, then the call returns or throws its result
Unlock(t) ==
    /\ thread[t].pc = "unlock"
    /\ mutex' = IF thread[t].owns THEN Release(mutex, t) ELSE mutex
    /\ op' = IF thread[t].kind = "read" THEN "with_read_lock" ELSE "with_write_lock"
    /\ err' = thread[t].result
    /\ thread' = [thread EXCEPT ![t] = NoCall]
    /\ UNCHANGED <<idx, crashed, sessions, index_list, index_map, db_sessions,
                   filevars, read_lock_count, write_lock_count,
                   enable_require_locking, rw_manager>>

\* the database after open(), read_write or read_only
InitLock ==
    /\ idx = [k \in AllKinds |-> generic_index]
    /\ op = "init"
    /\ err = "ok"
    /\ crashed = FALSE
    /\ sessions = [s \in 1..MaxSessions |-> NoSession]
    /\ index_list = <<>>
    /\ index_map = [key \in RegistryKeys |-> FALSE]
    /\ db_sessions = [s \in 1..MaxDbSessions |-> NoSession]
    /\ segment = [k \in AllKinds |-> "none"]
    /\ read_only \in BOOLEAN
    /\ mutex = read_write_mutex
    /\ thread = [t \in Threads |-> NoCall]
    /\ read_lock_count = 0
    /\ write_lock_count = 0
    /\ enable_require_locking = FALSE
    /\ rw_manager = read_write_mutex_manager
    /\ disk = OpenedDisk
    /\ handle = IF read_only
                THEN [OpenedHandle EXCEPT !.flock = FALSE, !.flags = "read_only"]
                ELSE OpenedHandle

NextLock ==
    \/ \E t \in Threads, w \in WaitMicros, n \in RetryCounts : WithReadLock(t, w, n)
    \/ \E t \in Threads, w \in WaitMicros, n \in RetryCounts : WithWriteLock(t, w, n)
    \/ \E t \in Threads : IncrLoad(t)
    \/ \E t \in Threads : IncrStore(t)
    \/ \E t \in Threads : Lock(t)
    \/ \E t \in Threads : TimedLock(t)
    \/ \E t \in Threads, raises \in BOOLEAN : Callback(t, raises)
    \/ \E t \in Threads : DecrStore(t)
    \/ \E t \in Threads : Unlock(t)

SpecLock == InitLock /\ [][NextLock]_vars

\* ------------------------------------------------- open, close and wipe
OpenFlags == {"read_only", "read_write"}
Sizes == 1..MaxSize

\* operator== of environment_check that compares the compiler only (a
\* mutant of environment_equal)
environment_equal_compiler(a, b) == a.compiler_version = b.compiler_version

\* friend bool operator==(const environment_check&, const environment_check&)
environment_equal(a, b) ==
    <<a.compiler_version, a.debug, a.apple, a.windows>>
       = <<b.compiler_version, b.debug, b.apple, b.windows>>

\* database::open(dir, flags, shared_file_size) for dir = TheDir, as the
\* state it leaves and the error it throws; grow_ok: the system lets the
\* file grow
open(flags, shared_file_size, grow_ok) ==
    LET write == (flags = "read_write")
        same == [disk |-> disk, handle |-> handle, read_only |-> read_only,
                 segment |-> segment]
        \* if (_data_dir != dir) close(); _data_dir = dir
        h1 == IF handle.data_dir # TheDir
              THEN [handle EXCEPT !.mapped = FALSE, !.file_size = 0,
                                  !.data_dir = TheDir]
              ELSE handle
        d1 == [disk EXCEPT !.dir = TRUE]
        refused == write /\ shared_file_size > disk.size /\ ~grow_ok
        \* the existing file is grown and mapped
        d2 == IF write /\ shared_file_size > disk.size
              THEN [d1 EXCEPT !.size = shared_file_size]
              ELSE d1
        h2 == [h1 EXCEPT !.mapped = TRUE,
                         !.file_size = IF write THEN d2.size
                                       ELSE shared_file_size]
        ro2 == IF write THEN read_only ELSE TRUE
        \* a new file is created and gets the sentinel
        d3 == [d1 EXCEPT !.bin = TRUE, !.size = shared_file_size,
                         !.has_env = TRUE, !.env = environment_check]
        h3 == [h1 EXCEPT !.mapped = TRUE, !.file_size = shared_file_size]
        d4 == IF disk.bin THEN d2 ELSE d3
        h4 == IF disk.bin THEN h2 ELSE h3
        ro4 == IF disk.bin THEN ro2 ELSE read_only
        s4 == IF disk.bin THEN segment ELSE [k \in AllKinds |-> "none"]
    IN  IF ~disk.dir /\ ~write
        THEN same @@ [err |-> "not_found"]
        ELSE IF disk.bin /\ refused
        THEN [err |-> "growth_refused", disk |-> d1,
              handle |-> [h1 EXCEPT !.file_size = disk.size],
              read_only |-> read_only, segment |-> segment]
        ELSE IF disk.bin /\ ~(disk.has_env
                               /\ environment_equal(disk.env, environment_check))
        THEN [err |-> "environment_mismatch", disk |-> d2, handle |-> h2,
              read_only |-> ro2, segment |-> segment]
        ELSE IF write /\ disk.locked
        THEN [err |-> "already_locked", disk |-> d4, handle |-> h4,
              read_only |-> ro4, segment |-> s4]
        ELSE [err |-> "ok", disk |-> d4,
              handle |-> [h4 EXCEPT !.flock = IF write THEN TRUE ELSE @,
                                    !.flags = flags],
              read_only |-> ro4, segment |-> s4]

Open(flags, shared_file_size, grow_ok) ==
    /\ ~crashed
    /\ op' = "open"
    /\ LET r == open(flags, shared_file_size, grow_ok)
       IN  /\ err' = r.err
           /\ disk' = r.disk
           /\ handle' = r.handle
           /\ read_only' = r.read_only
           /\ segment' = r.segment
    /\ read_lock_count' = 0
    /\ write_lock_count' = 0
    /\ UNCHANGED <<idx, crashed, sessions, index_list, index_map, db_sessions,
                   mutex, thread, enable_require_locking, rw_manager>>

\* database::close()
Close ==
    /\ ~crashed
    /\ op' = "close"
    /\ err' = "ok"
    /\ handle' = [handle EXCEPT !.mapped = FALSE, !.data_dir = NoDir,
                                !.file_size = 0]
    /\ read_lock_count' = 0
    /\ write_lock_count' = 0
    /\ UNCHANGED <<idx, crashed, sessions, index_list, index_map, db_sessions,
                   segment, read_only, disk, mutex, thread,
                   enable_require_locking, rw_manager>>

\* database::wipe(dir) for dir = TheDir
Wipe ==
    /\ ~crashed
    /\ op' = "wipe"
    /\ err' = "ok"
    /\ handle' = [handle EXCEPT !.mapped = FALSE, !.data_dir = NoDir,
                                !.file_size = 0]
    /\ disk' = [NoFile(disk.dir, disk.locked) EXCEPT !.dir = disk.dir]
    /\ segment' = [k \in AllKinds |-> "none"]
    /\ idx' = [k \in AllKinds |-> generic_index]
    /\ index_list' = <<>>
    /\ index_map' = [key \in RegistryKeys |-> FALSE]
    /\ read_lock_count' = 0
    /\ write_lock_count' = 0
    /\ UNCHANGED <<crashed, sessions, db_sessions, read_only, mutex, thread,
                   enable_require_locking, rw_manager>>

\* what another process has left in the directory
StoredEnvs ==
    {environment_check,
     [environment_check EXCEPT !.compiler_version = "other"],
     [environment_check EXCEPT !.debug = TRUE],
     [environment_check EXCEPT !.apple = TRUE],
     [environment_check EXCEPT !.windows = TRUE]}

Disks ==
    {NoFile(d, l) : d \in BOOLEAN, l \in BOOLEAN}
       \cup {[NoFile(TRUE, l) EXCEPT !.bin = TRUE, !.size = n, !.has_env = TRUE,
                                     !.env = e] :
                 l \in BOOLEAN, n \in Sizes, e \in StoredEnvs}
       \cup {[NoFile(TRUE, l) EXCEPT !.bin = TRUE, !.size = n] :
                 l \in BOOLEAN, n \in Sizes}

\* a new database object and a directory in any state; a file that exists
\* holds the index of TheKind or no index
InitFile ==
    /\ idx = [k \in AllKinds |-> generic_index]
    /\ op = "init"
    /\ err = "ok"
    /\ crashed = FALSE
    /\ sessions = [s \in 1..MaxSessions |-> NoSession]
    /\ index_list = <<>>
    /\ index_map = [key \in RegistryKeys |-> FALSE]
    /\ db_sessions = [s \in 1..MaxDbSessions |-> NoSession]
    /\ disk \in Disks
    /\ segment \in {[k \in AllKinds |-> "none"],
                     [k \in AllKinds |-> IF k = TheKind /\ disk.bin
                                         THEN "valid" ELSE "none"]}
    /\ read_only = FALSE
    /\ handle = ClosedHandle
    /\ mutex = read_write_mutex
    /\ thread = [t \in Threads |-> NoCall]
    /\ read_lock_count = 0
    /\ write_lock_count = 0
    /\ enable_require_locking = FALSE
    /\ rw_manager = read_write_mutex_manager

\* the owner of the handle opens and closes it between its lock calls;
\* add_index and the lock calls are made on an open handle
AllIdle == \A t \in Threads : thread[t].pc = "idle"

NextFile ==
    \/ \E flags \in OpenFlags, n \in Sizes, grow_ok \in BOOLEAN :
          AllIdle /\ Open(flags, n, grow_ok)
    \/ AllIdle /\ Close
    \/ AllIdle /\ Wipe
    \/ AllIdle /\ handle.mapped /\ DbAddIndex(TheKind)
    \/ \E t \in Threads : AllIdle /\ handle.mapped /\ WithWriteLock(t, 0, 0)
    \/ \E t \in Threads : IncrLoad(t)
    \/ \E t \in Threads : IncrStore(t)
    \/ \E t \in Threads : Lock(t)
    \/ \E t \in Threads : Callback(t, FALSE)
    \/ \E t \in Threads : DecrStore(t)
    \/ \E t \in Threads : Unlock(t)

SpecFile == InitFile /\ [][NextFile]_vars

\* ------------------------------------------- the checks of the lock counts
\* CHAINBASE_REQUIRE_READ_LOCK / CHAINBASE_REQUIRE_WRITE_LOCK: TRUE when the
\* check lets the call go on, FALSE when it calls require_lock_fail
require_read_lock ==
    ~(enable_require_locking /\ read_only /\ read_lock_count <= 0)

require_write_lock ==
    ~(enable_require_locking /\ write_lock_count <= 0)

SetRequireLocking(enable) ==
    /\ ~crashed
    /\ op' = "set_require_locking"
    /\ err' = "ok"
    /\ enable_require_locking' = enable
    /\ UNCHANGED <<idx, crashed, sessions, index_list, index_map, db_sessions,
                   filevars, mutex, thread, read_lock_count, write_lock_count,
                   rw_manager>>

\* a thread calls the database from outside the lock calls or from within
\* its callback
CanCall(t) == thread[t].pc \in {"idle", "callback"}

\* a call that writes: the check, then the operation r on index k. On a
\* read-only database the call is made only where the check stops it.
CheckedWrite(t, name, k, r) ==
    /\ ~crashed
    /\ CanCall(t)
    /\ k \in Registered
    /\ ~read_only \/ ~require_write_lock
    /\ IF require_write_lock
       THEN Outcome(name, k, r)
       ELSE op' = name /\ err' = "lock_discipline" /\ UNCHANGED <<idx, crashed>>
    /\ UNCHANGED <<sessions, index_list, index_map, db_sessions,
                   filevars, lockvars>>

CheckedCreate(t, k, key) ==
    /\ idx[k].next_id < DbMaxId
    /\ CheckedWrite(t, "create", k, emplace(idx[k], key))

CheckedModify(t, k, obj, key) ==
    /\ obj \in idx[k].indices
    /\ CheckedWrite(t, "modify", k, modify(idx[k], obj, key))

CheckedRemove(t, k, obj) ==
    /\ obj \in idx[k].indices
    /\ CheckedWrite(t, "remove", k, remove(idx[k], obj))

\* database::set_revision: the check, then the loop over the indices
CheckedSetRevision(t, revision) ==
    /\ ~crashed
    /\ CanCall(t)
    /\ ~read_only \/ ~require_write_lock
    /\ IF require_write_lock
       THEN \E ub \in UBOutcomes :
               DbOutcome("set_revision",
                         Broadcast("set_revision", index_list, idx, revision, ub))
       ELSE /\ op' = "set_revision"
            /\ err' = "lock_discipline"
            /\ UNCHANGED <<idx, crashed>>
    /\ UNCHANGED <<sessions, index_list, index_map, db_sessions,
                   filevars, lockvars>>

\* find<T>(id) and get<T>(id): the check, then the lookup; get throws where
\* find returns null
CheckedRead(t, name, k, id) ==
    /\ ~crashed
    /\ CanCall(t)
    /\ k \in Registered
    /\ op' = name
    /\ err' = IF ~require_read_lock THEN "lock_discipline"
              ELSE IF name = "get" /\ ~HasId(idx[k].indices, id) THEN "out_of_range"
              ELSE "ok"
    /\ UNCHANGED <<idx, crashed, sessions, index_list, index_map, db_sessions,
                   filevars, lockvars>>

CheckedFind(t, k, id) == CheckedRead(t, "find", k, id)

CheckedGet(t, k, id) == CheckedRead(t, "get", k, id)

\* the database after open() and add_index<TheKind>(), read_write on a new
\* file or read_only on a file that holds one object or none
InitDiscipline ==
    /\ read_only \in BOOLEAN
    /\ \E I \in {generic_index,
                  [generic_index EXCEPT !.indices = {[id |-> 0, key |-> 1]},
                                        !.next_id = 1]} :
          /\ I = generic_index \/ read_only
          /\ idx = [k \in AllKinds |-> IF k = TheKind THEN I ELSE generic_index]
    /\ op = "init"
    /\ err = "ok"
    /\ crashed = FALSE
    /\ sessions = [s \in 1..MaxSessions |-> NoSession]
    /\ index_list = <<TheKind>>
    /\ index_map = [key \in RegistryKeys |-> key = registry_key(TheKind)]
    /\ db_sessions = [s \in 1..MaxDbSessions |-> NoSession]
    /\ segment = [k \in AllKinds |-> IF k = TheKind THEN "valid" ELSE "none"]
    /\ mutex = read_write_mutex
    /\ thread = [t \in Threads |-> NoCall]
    /\ read_lock_count = 0
    /\ write_lock_count = 0
    /\ enable_require_locking = FALSE
    /\ rw_manager = read_write_mutex_manager
    /\ disk = OpenedDisk
    /\ handle = IF read_only
                THEN [OpenedHandle EXCEPT !.flock = FALSE, !.flags = "read_only"]
                ELSE OpenedHandle

\* the lock calls wait without a time limit in this specification
NextDiscipline ==
    \/ \E enable \in BOOLEAN : SetRequireLocking(enable)
    \/ \E t \in Threads : WithReadLock(t, 0, 0)
    \/ \E t \in Threads : WithWriteLock(t, 0, 0)
    \/ \E t \in Threads : IncrLoad(t)
    \/ \E t \in Threads : IncrStore(t)
    \/ \E t \in Threads : Lock(t)
    \/ \E t \in Threads : Callback(t, FALSE)
    \/ \E t \in Threads : DecrStore(t)
    \/ \E t \in Threads : Unlock(t)
    \/ \E t \in Threads, key \in Keys : CheckedCreate(t, TheKind, key)
    \/ \E t \in Threads, obj \in idx[TheKind].indices, key \in Keys :
          CheckedModify(t, TheKind, obj, key)
    \/ \E t \in Threads, obj \in idx[TheKind].indices :
          CheckedRemove(t, TheKind, obj)
    \/ \E t \in Threads : CheckedSetRevision(t, MaxRev)
    \/ \E t \in Threads, id \in 0..DbMaxId : CheckedFind(t, TheKind, id)
    \/ \E t \in Threads, id \in 0..DbMaxId : CheckedGet(t, TheKind, id)

SpecDiscipline == InitDiscipline /\ [][NextDiscipline]_vars

\* ----------------------------------------- object_database: the lock ring
\* The model is of a build without CHAINBASE_CHECK_LOCKING, with _rw_manager
\* pointing to a constructed manager. A call keeps the slot it took at its
\* entry; a thread that stays in its callback for ever is a dead reader.
SlotOf(manager) == manager.current_lock % CHAINBASE_NUM_RW_LOCKS

RingFrame(kind, wait_micro) ==
    [pc |-> IF wait_micro = 0 THEN "lock" ELSE "timed_lock", kind |-> kind,
     slot |-> SlotOf(rw_manager), owns |-> FALSE, result |-> "ok"]

RingWithReadLock(t, wait_micro) ==
    /\ ~crashed
    /\ thread[t].pc = "idle"
    /\ rw_manager.current_lock < MaxAdvance
    /\ op' = "with_read_lock"
    /\ err' = "ok"
    /\ thread' = [thread EXCEPT ![t] = RingFrame("read", wait_micro)]
    /\ UNCHANGED <<idx, crashed, sessions, index_list, index_map, db_sessions,
                   filevars, mutex, read_lock_count, write_lock_count,
                   enable_require_locking, rw_manager>>

RingWithWriteLock(t, wait_micro) ==
    /\ ~crashed
    /\ thread[t].pc = "idle"
    /\ rw_manager.current_lock < MaxAdvance
    /\ op' = "with_write_lock"
    /\ IF read_only
       THEN /\ err' = "invalid_state"
            /\ thread' = thread
       ELSE /\ err' = "ok"
            /\ thread' = [thread EXCEPT ![t] = RingFrame("write", wait_micro)]
    /\ UNCHANGED <<idx, crashed, sessions, index_list, index_map, db_sessions,
                   filevars, mutex, read_lock_count, write_lock_count,
                   enable_require_locking, rw_manager>>

RingCanAcquire(t) ==
    IF thread[t].kind = "read"
    THEN CanLockShared(rw_manager.locks[thread[t].slot])
    ELSE CanLock(rw_manager.locks[thread[t].slot])

RingAcquire(t) ==
    /\ rw_manager' = [rw_manager EXCEPT
                        !.locks[thread[t].slot] = Acquire(@, t, thread[t].kind)]
    /\ thread' = [thread EXCEPT ![t].pc = "callback", ![t].owns = TRUE]

\* lock.lock()
RingLock(t) ==
    /\ ~crashed
    /\ thread[t].pc = "lock"
    /\ RingCanAcquire(t)
    /\ RingAcquire(t)
    /\ UNCHANGED <<idx, op, err, crashed, sessions, index_list, index_map,
                   db_sessions, filevars, mutex, read_lock_count,
                   write_lock_count, enable_require_locking>>

\* lock.timed_lock(...): a reader that times out throws, a writer enters the
\* body of its while loop
RingTimedLock(t) ==
    /\ ~crashed
    /\ thread[t].pc = "timed_lock"
    /\ IF RingCanAcquire(t)
       THEN RingAcquire(t)
       ELSE /\ rw_manager' = rw_manager
            /\ thread' = [thread EXCEPT
                   ![t].pc = IF thread[t].kind = "read" THEN "unlock"
                             ELSE "next_lock",
                   ![t].result = IF thread[t].kind = "read" THEN "timeout"
                                 ELSE @]
    /\ UNCHANGED <<idx, op, err, crashed, sessions, index_list, index_map,
                   db_sessions, filevars, mutex, read_lock_count,
                   write_lock_count, enable_require_locking>>

\* next_lock(), first statement: _current_lock++ (a uint32_t; the calls are
\* offered below MaxAdvance, which keeps it far from its wrap)
RingNextLock(t) ==
    /\ ~crashed
    /\ thread[t].pc = "next_lock"
    /\ rw_manager' = [rw_manager EXCEPT
                        !.current_lock = @ + 1]
    /\ thread' = [thread EXCEPT ![t].pc = "reinit"]
    /\ UNCHANGED <<idx, op, err, crashed, sessions, index_list, index_map,
                   db_sessions, filevars, mutex, read_lock_count,
                   write_lock_count, enable_require_locking>>

\* next_lock(), second statement: a new read_write_mutex is constructed in
\* the current slot, whoever owns the old one; then the writer's lock is
\* replaced by one on the current slot
RingReinit(t) ==
    /\ ~crashed
    /\ thread[t].pc = "reinit"
    /\ rw_manager' = [rw_manager EXCEPT
                        !.locks[SlotOf(rw_manager)] = read_write_mutex]
    /\ thread' = [thread EXCEPT ![t].pc = "timed_lock",
                                ![t].slot = SlotOf(rw_manager)]
    /\ UNCHANGED <<idx, op, err, crashed, sessions, index_list, index_map,
                   db_sessions, filevars, mutex, read_lock_count,
                   write_lock_count, enable_require_locking>>

RingCallback(t) ==
    /\ ~crashed
    /\ thread[t].pc = "callback"
    /\ thread' = [thread EXCEPT ![t].pc = "unlock"]
    /\ UNCHANGED <<idx, op, err, crashed, sessions, index_list, index_map,
                   db_sessions, filevars, mutex, read_lock_count,
                   write_lock_count, enable_require_locking, rw_manager>>

\* the destructor of the lock, then the call returns or throws. To unlock a
\* mutex that was constructed anew since it was locked is undefined: the
\* process dies on an assertion of the mutex, or nothing is seen.
RingUnlock(t) ==
    /\ ~crashed
    /\ thread[t].pc = "unlock"
    /\ op' = IF thread[t].kind = "read" THEN "with_read_lock" ELSE "with_write_lock"
    /\ err' = thread[t].result
    /\ thread' = [thread EXCEPT ![t] = NoCall]
    /\ IF ~thread[t].owns
       THEN UNCHANGED <<rw_manager, crashed>>
       ELSE IF Holds(rw_manager.locks[thread[t].slot], t)
       THEN /\ rw_manager' = [rw_manager EXCEPT
                                !.locks[thread[t].slot] = Release(@, t)]
            /\ crashed' = crashed
       ELSE /\ rw_manager' = rw_manager
            /\ \E ub \in UBOutcomes : crashed' = (ub = "abort")
    /\ UNCHANGED <<idx, sessions, index_list, index_map, db_sessions,
                   filevars, mutex, read_lock_count, write_lock_count,
                   enable_require_locking>>

NextRing ==
    \/ \E t \in Threads, w \in WaitMicros : RingWithReadLock(t, w)
    \/ \E t \in Threads, w \in WaitMicros : RingWithWriteLock(t, w)
    \/ \E t \in Threads : RingLock(t)
    \/ \E t \in Threads : RingTimedLock(t)
    \/ \E t \in Threads : RingNextLock(t)
    \/ \E t \in Threads : RingReinit(t)
    \/ \E t \in Threads : RingCallback(t)
    \/ \E t \in Threads : RingUnlock(t)

\* the steps of a writer in its while loop: a thread that runs is scheduled
RingWriterStep(t) ==
    /\ thread[t].pc \in {"timed_lock", "next_lock", "reinit"}
    /\ thread[t].kind = "write"
    /\ RingTimedLock(t) \/ RingNextLock(t) \/ RingReinit(t)

SpecRing == Init /\ [][NextRing]_vars

SpecRingFair == SpecRing /\ \A t \in Threads : WF_vars(RingWriterStep(t))

\* ------------------------------------------------- the claims, one by one
TheIndex == idx[TheKind]

\* every object the newest undo state has to restore or erase is live: no
\* rejected modify and no failed undo has erased one of them
UndoDefined(I) ==
    \A i \in IdsOf(Back(I.stack).old_values) \cup Back(I.stack).new_ids :
        HasId(I.indices, i)

\* C1 (round trip): an undo() on a non-empty stack completes without error
\* and leaves the live objects equal to what they were when the undone
\* session was started (stated for sessions in which no operation failed).
C1_RoundTrip ==
    [][(enabled(TheIndex) /\ UndoDefined(TheIndex) /\ Undo(TheKind))
          => /\ err' = "ok"
             /\ idx'[TheKind].indices = Back(TheIndex.stack).entry_objs]_vars

\* C2 (squash-undo law): an undo() that follows a squash() of the newer of
\* two states into the older one leaves the live objects and next_id as they
\* were when the older session was started.
C2_SquashUndoLaw ==
    [][(/\ op = "squash" /\ err = "ok"
        /\ enabled(TheIndex) /\ UndoDefined(TheIndex)
        /\ Undo(TheKind))
          => /\ err' = "ok"
             /\ idx'[TheKind].indices = Back(TheIndex.stack).entry_objs
             /\ idx'[TheKind].next_id = Back(TheIndex.stack).old_next_id]_vars

\* C3 (I1, disjointness): in every undo state of the stack new_ids, the ids
\* of old_values and the ids of removed_values are pairwise disjoint.
DisjointState(H) ==
    /\ H.new_ids \cap IdsOf(H.old_values) = {}
    /\ H.new_ids \cap IdsOf(H.removed_values) = {}
    /\ IdsOf(H.old_values) \cap IdsOf(H.removed_values) = {}

C3_Disjointness ==
    \A i \in 1..Len(TheIndex.stack) : DisjointState(TheIndex.stack[i])

\* a state whose three containers are all in use, after a squash
C3_Witness ==
    /\ op = "squash"
    /\ Len(TheIndex.stack) = 1
    /\ TheIndex.stack[1].new_ids # {}
    /\ TheIndex.stack[1].removed_values # {}

\* C4 (I4, pre-image faithfulness): every old_values entry of every undo
\* state holds, once per id, the value the object had when that state's
\* revision was entered, however often the object was modified since; and
\* an undo of a state that recorded nothing but modifies of one object puts
\* that object back to the value from before the first modify.
PreImageFaithful(H) ==
    /\ H.old_values \subseteq H.entry_objs
    /\ Cardinality(IdsOf(H.old_values)) = Cardinality(H.old_values)

\* the newest state recorded one modified object and every other object is
\* as it was when the state was entered
OnlyOneModified(I) ==
    LET H == Back(I.stack)
    IN  /\ Cardinality(H.old_values) = 1
        /\ H.new_ids = {}
        /\ H.removed_values = {}
        /\ UndoDefined(I)
        /\ {o \in I.indices : o.id \notin IdsOf(H.old_values)} =
           {o \in H.entry_objs : o.id \notin IdsOf(H.old_values)}

C4_PreImageFaithful ==
    /\ [](\A i \in 1..Len(TheIndex.stack) : PreImageFaithful(TheIndex.stack[i]))
    /\ [][(enabled(TheIndex) /\ OnlyOneModified(TheIndex) /\ Undo(TheKind))
             => /\ err' = "ok"
                /\ idx'[TheKind].indices = Back(TheIndex.stack).entry_objs]_vars

\* a modify has left a live object that differs from its recorded pre-image
C4_Witness ==
    /\ op = "modify"
    /\ err = "ok"
    /\ enabled(TheIndex)
    /\ \E o \in Back(TheIndex.stack).old_values :
          \E p \in TheIndex.indices : p.id = o.id /\ p.key # o.key

\* C5 (I3, revision contiguity): the revisions of the stack rise by one from
\* each entry to the next, and the newest one is the index's revision.
C5_RevisionContiguity ==
    /\ \A i \in 1..(Len(TheIndex.stack) - 1) :
          TheIndex.stack[i + 1].revision = TheIndex.stack[i].revision + 1
    /\ enabled(TheIndex) => Back(TheIndex.stack).revision = TheIndex.revision

\* a squash has merged two states whose older one is above revision 1
C5_Witness ==
    /\ op = "squash"
    /\ Len(TheIndex.stack) = 1
    /\ TheIndex.stack[1].revision > 1
    /\ TheIndex.stack[1].new_ids # {}

\* C9 (commit frame): commit(r) keeps exactly the states with revision > r,
\* in order, and changes neither the objects, next_id nor the revision.
C9_CommitFrame ==
    [][\A r \in Revs :
          Commit(TheKind, r)
             => /\ idx'[TheKind].stack =
                      SelectSeq(TheIndex.stack, LAMBDA H : H.revision > r)
                /\ idx'[TheKind].indices = TheIndex.indices
                /\ idx'[TheKind].next_id = TheIndex.next_id
                /\ idx'[TheKind].revision = TheIndex.revision]_vars

\* after a commit the stack holds a state of revision 2 or more that
\* recorded changes: the states below it are gone
C9_Witness ==
    /\ op = "commit"
    /\ Len(TheIndex.stack) = 1
    /\ TheIndex.stack[1].revision >= 2
    /\ TheIndex.stack[1].revision = TheIndex.revision
    /\ TheIndex.stack[1].new_ids # {}
    /\ TheIndex.stack[1].old_next_id > 0

\* the objects no undo can go behind: those at the entry of the oldest state
Base(I) == IF enabled(I) THEN I.stack[1].entry_objs ELSE I.indices

\* C10 (commit is monotone): an undo_all that follows a commit leaves the
\* objects as they were when the oldest surviving state was started, or as
\* they were at the commit when no state survived.
C10_CommitMonotone ==
    [][(/\ op = "commit"
        /\ Len(TheIndex.stack) = 1 /\ UndoDefined(TheIndex)
        /\ UndoAll(TheKind))
          => /\ err' = "ok"
             /\ idx'[TheKind].indices = Base(TheIndex)]_vars

\* C6 (RAII rollback): the drop of an armed session whose undo state is the
\* newest one completes and leaves the objects and next_id as they were when
\* the session was started.
C6_RaiiRollback ==
    [][\A s \in Slots :
          (/\ Armed(s)
           /\ enabled(TheIndex)
           /\ Back(TheIndex.stack).revision = sessions[s].revision
           /\ UndoDefined(TheIndex)
           /\ SessionDrop(s))
             => /\ err' = "ok"
                /\ idx'[TheKind].indices = Back(TheIndex.stack).entry_objs
                /\ idx'[TheKind].next_id = Back(TheIndex.stack).old_next_id]_vars

\* C7 (push only disarms): push() changes no index, leaves the session
\* disarmed, and the drop of a disarmed session changes no index either, so
\* the objects, next_id, the revision and the whole stack stay as they were.
C7_PushOnlyDisarms ==
    [][\A s \in Slots :
          /\ SessionPush(s) => (idx' = idx /\ ~sessions'[s].apply)
          /\ (sessions[s].live /\ ~sessions[s].apply /\ SessionDrop(s))
                => idx' = idx]_vars

\* every session has been dropped and an undo state with recorded changes is
\* still on the stack: its session was pushed before the drop
C7_Witness ==
    /\ op = "session_drop"
    /\ err = "ok"
    /\ \A s \in Slots : ~sessions[s].live
    /\ Len(TheIndex.stack) = 1
    /\ TheIndex.stack[1].new_ids # {}
    /\ TheIndex.stack[1].old_values # {}

\* the undo states a composite session created are all on their stacks
StartedOnStack(s) ==
    \A k \in DOMAIN db_sessions[s].started :
        \E i \in 1..Len(idx[k].stack) :
            idx[k].stack[i].revision = db_sessions[s].started[k]

\* C8 (Scenario B through the facade): commit(session.revision()) right
\* after session.push() removes the undo states that session created from
\* the stack of every index.
C8_CommitOfSession ==
    [][\A s \in DbSlots :
          (/\ op = "session_push"
           /\ db_sessions[s].live
           /\ DOMAIN db_sessions[s].started # {}
           /\ StartedOnStack(s)
           /\ \E k \in Registered :
                 enabled(idx[k]) /\ Back(idx[k].stack).new_ids # {}
           /\ DbCommitSession(s))
             => \A k \in DOMAIN db_sessions[s].started :
                   \A i \in 1..Len(idx'[k].stack) :
                       idx'[k].stack[i].revision # db_sessions[s].started[k]]_vars

\* ---------------------------------------------------- revision accounting
\* the parts of the accounting that do not depend on how squash ends
RevisionSteps ==
    /\ (op' = "start_undo_session" /\ StartPushed(TheKind))
          => /\ idx'[TheKind].revision = TheIndex.revision + 1
             /\ Len(idx'[TheKind].stack) = Len(TheIndex.stack) + 1
    /\ (op' = "undo" /\ Len(idx'[TheKind].stack) # Len(TheIndex.stack)
            /\ Undo(TheKind))
          => /\ idx'[TheKind].revision = TheIndex.revision - 1
             /\ Len(idx'[TheKind].stack) = Len(TheIndex.stack) - 1
    /\ (op' \in {"undo", "squash"}
            /\ Len(idx'[TheKind].stack) = Len(TheIndex.stack)
            /\ (Undo(TheKind) \/ Squash(TheKind)))
          => idx'[TheKind].revision = TheIndex.revision
    /\ (op' \in {"undo", "squash"} /\ ~enabled(TheIndex)
            /\ (Undo(TheKind) \/ Squash(TheKind)))
          => idx'[TheKind] = TheIndex

\* C11 as stated (revision accounting): start_undo_session(true) raises the
\* revision by one, and every undo() or squash() that removes an undo state
\* from the stack lowers it by one; a call on an empty stack changes nothing.
C11_RevisionAccountingStated ==
    [][/\ RevisionSteps
       /\ (op' = "squash" /\ Len(idx'[TheKind].stack) # Len(TheIndex.stack)
               /\ Squash(TheKind))
             => /\ idx'[TheKind].revision = TheIndex.revision - 1
                /\ Len(idx'[TheKind].stack) = Len(TheIndex.stack) - 1]_vars

\* C11 as amended: as above, but a squash() lowers the revision only when it
\* merges two states; on a one-state stack it removes the state and leaves
\* the revision as it is.
C11_RevisionAccounting ==
    [][/\ RevisionSteps
       /\ (op' = "squash" /\ Len(TheIndex.stack) >= 2 /\ err' = "ok"
               /\ Squash(TheKind))
             => /\ idx'[TheKind].revision = TheIndex.revision - 1
                /\ Len(idx'[TheKind].stack) = Len(TheIndex.stack) - 1
       /\ (op' = "squash" /\ Len(TheIndex.stack) = 1 /\ Squash(TheKind))
             => /\ idx'[TheKind].revision = TheIndex.revision
                /\ idx'[TheKind].stack = <<>>]_vars

\* an undo has removed the newer of two states
C11_Witness ==
    /\ op = "undo"
    /\ err = "ok"
    /\ Len(TheIndex.stack) = 1
    /\ TheIndex.revision = TheIndex.stack[1].revision
    /\ TheIndex.indices # {}

\* ------------------------------------------------------- squash merge table
Ids == 0..(MaxId - 1)

\* the relationship of id i to the undo state H: new, upd(was), del(was), nop
Rel(H, i) ==
    IF i \in H.new_ids THEN <<"new">>
    ELSE IF HasId(H.old_values, i) THEN <<"upd", ById(H.old_values, i)>>
    ELSE IF HasId(H.removed_values, i) THEN <<"del", ById(H.removed_values, i)>>
    ELSE <<"nop">>

\* the entry of the merged state for an id with entry a in A and b in B
MergeTable(a, b) ==
    CASE a[1] = "new" /\ b[1] \in {"upd", "nop"} -> <<"new">>
      [] a[1] = "new" /\ b[1] = "del" -> <<"nop">>
      [] a[1] = "upd" /\ b[1] \in {"upd", "nop"} -> a
      [] a[1] = "upd" /\ b[1] = "del" -> <<"del", a[2]>>
      [] a[1] = "del" /\ b[1] = "nop" -> a
      [] a[1] = "nop" -> b
      [] OTHER -> <<"n/a">>

\* C12 (squash merge table): a squash() of two or more states replaces the
\* two newest states A and B by one state that holds, for every id, the
\* entry the merge table gives for A's and B's entries, with A's old_next_id
\* and revision; the states below A stay as they are.
C12_SquashMergeTable ==
    [][(Squash(TheKind) /\ Len(TheIndex.stack) >= 2 /\ err' = "ok")
          => LET n == Len(TheIndex.stack)
                 A == TheIndex.stack[n - 1]
                 B == TheIndex.stack[n]
                 M == idx'[TheKind].stack[n - 1]
             IN  /\ Len(idx'[TheKind].stack) = n - 1
                 /\ SubSeq(idx'[TheKind].stack, 1, n - 2)
                       = SubSeq(TheIndex.stack, 1, n - 2)
                 /\ \A i \in Ids : Rel(M, i) = MergeTable(Rel(A, i), Rel(B, i))
                 /\ M.old_next_id = A.old_next_id
                 /\ M.revision = A.revision]_vars

\* after a merge one object is recorded as modified and another as removed
C12_Witness ==
    /\ op = "squash"
    /\ err = "ok"
    /\ Len(TheIndex.stack) = 1
    /\ TheIndex.stack[1].old_values # {}
    /\ TheIndex.stack[1].removed_values # {}

\* ------------------------------------------------------------ squash frame
\* C13 (squash changes only the undo buffer): a squash() on an empty stack,
\* on one state or on more leaves the live objects and next_id as they were;
\* on a one-state stack the state is discarded, not rolled back, and a
\* following undo() finds nothing to undo.
C13_SquashFrame ==
    [][Squash(TheKind)
          => /\ idx'[TheKind].indices = TheIndex.indices
             /\ idx'[TheKind].next_id = TheIndex.next_id
             /\ ~enabled(TheIndex) => idx'[TheKind] = TheIndex
             /\ Len(TheIndex.stack) = 1
                   => /\ idx'[TheKind].stack = <<>>
                      /\ \A ub \in UBOutcomes :
                            undo(idx'[TheKind], ub).idx = idx'[TheKind]]_vars

\* a squash has emptied the stack and objects created before it are live
C13_Witness ==
    /\ op = "squash"
    /\ err = "ok"
    /\ TheIndex.stack = <<>>
    /\ TheIndex.revision > 0
    /\ TheIndex.next_id > 0
    /\ TheIndex.indices # {}

\* ------------------------------------------------------------------ next_id
\* C14 (next_id is restored by undo): an undo() on a non-empty stack leaves
\* next_id equal to the old_next_id of the undone state, the value next_id
\* had when that session was started (stated for sessions in which no
\* operation failed).
C14_NextIdRestored ==
    [][(enabled(TheIndex) /\ UndoDefined(TheIndex) /\ Undo(TheKind))
          => idx'[TheKind].next_id = Back(TheIndex.stack).old_next_id]_vars

\* C15 as stated (ids are never reused after rollback): no id is handed out
\* twice. emplace hands out next_id and every id below next_id has been
\* handed out, so this says that next_id never goes down.
C15_IdsNeverReused ==
    [][idx'[TheKind].next_id >= TheIndex.next_id]_vars

\* C15 as amended: no id is handed out while a live object holds it (every
\* live object has an id below next_id), and next_id goes down only in
\* undo() and undo_all(), to the old_next_id of a state of the stack: the
\* ids of objects created in an undone session are handed out again.
C15_IdsOfLiveObjects ==
    /\ [](\A o \in TheIndex.indices : o.id < TheIndex.next_id)
    /\ [][idx'[TheKind].next_id < TheIndex.next_id
             => /\ Undo(TheKind) \/ UndoAll(TheKind)
                /\ \E i \in 1..Len(TheIndex.stack) :
                      idx'[TheKind].next_id = TheIndex.stack[i].old_next_id]_vars

\* an undo has removed a nested state and left the object that the state
\* below it created
C15_Witness ==
    /\ op = "undo"
    /\ err = "ok"
    /\ Len(TheIndex.stack) = 1
    /\ TheIndex.stack[1].old_next_id = 0
    /\ TheIndex.stack[1].new_ids = {0}
    /\ TheIndex.next_id = 1

\* the undo state that session s created is on the stack of index I
OnStack(s, I) ==
    \E i \in 1..Len(I.stack) : I.stack[i].revision = sessions[s].revision

\* C16 as stated (I2, monotonic ids): while a session is armed and its undo
\* state is on the stack, no operation, the start and the end of nested
\* sessions included, lowers next_id.
C16_NextIdNeverDecreases ==
    [][\A s \in Slots :
          (/\ Armed(s)
           /\ sessions'[s] = sessions[s]
           /\ OnStack(s, TheIndex)
           /\ OnStack(s, idx'[TheKind]))
             => idx'[TheKind].next_id >= TheIndex.next_id]_vars

\* C16 as amended: each undo state records as old_next_id the value of
\* next_id when its session was started, and while the state is on the
\* stack next_id is never below it; next_id goes down only when the newest
\* state is undone, to that state's old_next_id.
C16_NextIdFloor ==
    /\ [](\A i \in 1..Len(TheIndex.stack) :
              TheIndex.next_id >= TheIndex.stack[i].old_next_id)
    /\ [][/\ \A s \in Slots :
                StartUndoSession(TheKind, s, TRUE)
                   => Back(idx'[TheKind].stack).old_next_id = TheIndex.next_id
          /\ idx'[TheKind].next_id < TheIndex.next_id
                => /\ enabled(TheIndex)
                   /\ idx'[TheKind].next_id = Back(TheIndex.stack).old_next_id]_vars

\* a nested session has been undone, the session below it is still armed
\* and the object it created keeps next_id above its old_next_id
C16_Witness ==
    /\ op \in {"session_undo", "session_drop"}
    /\ err = "ok"
    /\ Len(TheIndex.stack) = 1
    /\ \E s \in Slots :
          Armed(s) /\ sessions[s].revision = TheIndex.stack[1].revision
    /\ TheIndex.stack[1].new_ids # {}
    /\ TheIndex.next_id > TheIndex.stack[1].old_next_id

\* ------------------------------------------------------------------- emplace
\* C17 (emplace): a successful emplace adds one object whose id is next_id
\* as it was before the call, raises next_id by one and, when the stack is
\* not empty, adds the id to new_ids of the newest undo state and changes
\* nothing else; an emplace rejected by the unique key fails with the
\* uniqueness error and leaves the whole index as it was.
C17_Emplace ==
    [][\A key \in Keys :
          Emplace(TheKind, key)
             => LET o == [id |-> TheIndex.next_id, key |-> key]
                IN  IF err' = "ok"
                    THEN /\ ~HasId(TheIndex.indices, o.id)
                         /\ idx'[TheKind].indices = TheIndex.indices \cup {o}
                         /\ idx'[TheKind].next_id = TheIndex.next_id + 1
                         /\ idx'[TheKind].revision = TheIndex.revision
                         /\ idx'[TheKind].stack =
                               IF enabled(TheIndex)
                               THEN [TheIndex.stack EXCEPT
                                        ![Len(TheIndex.stack)].new_ids = @ \cup {o.id}]
                               ELSE TheIndex.stack
                    ELSE /\ err' = "uniqueness"
                         /\ \E p \in TheIndex.indices : p.key = key
                         /\ idx'[TheKind] = TheIndex]_vars

\* an emplace has been rejected in a session that had created an object
C17_Witness ==
    /\ op = "emplace"
    /\ err = "uniqueness"
    /\ enabled(TheIndex)
    /\ Back(TheIndex.stack).new_ids # {}

\* -------------------------------------------------------------------- modify
\* C18 (a rejected modify leaves the object untouched): after a modify that
\* failed with the uniqueness error the object is still in the index with
\* the field values it had before the call.
C18_RejectedModifyUntouched ==
    [][\A obj \in TheIndex.indices, key \in Keys :
          (Modify(TheKind, obj, key) /\ err' = "uniqueness")
             => obj \in idx'[TheKind].indices]_vars

\* C19 (rollback after a failed modify): when a modify inside an armed
\* session has failed, the drop of that session completes undo() and leaves
\* the live objects and next_id as they were when the session was started,
\* the object that was being modified included.
C19_RollbackAfterFailure ==
    [][\A s \in Slots :
          (/\ Armed(s)
           /\ enabled(TheIndex)
           /\ Back(TheIndex.stack).revision = sessions[s].revision
           /\ op = "modify"
           /\ err = "uniqueness"
           /\ SessionDrop(s))
             => /\ err' = "ok"
                /\ idx'[TheKind].indices = Back(TheIndex.stack).entry_objs
                /\ idx'[TheKind].next_id = Back(TheIndex.stack).old_next_id]_vars

\* -------------------------------------------------------------- set_revision
\* C20 (set_revision): set_revision(r) on an empty stack sets the revision
\* to r and changes nothing else; on a non-empty stack it fails with the
\* invalid-state error and leaves the revision, the stack and the objects
\* as they were.
C20_SetRevision ==
    [][\A r \in Revs :
          SetRevision(TheKind, r)
             => IF TheIndex.stack = <<>>
                THEN /\ err' = "ok"
                     /\ idx'[TheKind] = [TheIndex EXCEPT !.revision = r]
                ELSE /\ err' = "invalid_state"
                     /\ idx'[TheKind] = TheIndex]_vars

\* a set_revision has been refused on a stack whose state recorded changes
C20_Witness ==
    /\ op = "set_revision"
    /\ err = "invalid_state"
    /\ enabled(TheIndex)
    /\ Back(TheIndex.stack).new_ids # {}

ArmedCount == Cardinality({s \in Slots : Armed(s)})

\* C22 (moving a session transfers the armed bit): after a move construction
\* or a move assignment the source is disarmed and the destination is armed
\* iff the source was, and no index is touched unless the destination of an
\* assignment was armed itself, so the number of armed handles never exceeds
\* the number of undo states; the drop of the armed holder performs one
\* undo(), the drop of any other holder performs none, and push() disarms
\* the holder without an undo().
C22_MoveTransfersArmed ==
    /\ [](ArmedCount <= Len(TheIndex.stack))
    /\ [][\A src \in Slots, dst \in Slots :
             /\ (op' = "session_move" /\ SessionMoveConstruct(src, dst))
                   => /\ idx' = idx
                      /\ sessions'[dst].apply = sessions[src].apply
                      /\ ~sessions'[src].apply
                      /\ ArmedCount' = ArmedCount
             /\ (op' = "session_assign" /\ src # dst /\ sessions[dst].live
                     /\ ~sessions[dst].apply /\ SessionMoveAssign(src, dst))
                   => /\ idx' = idx
                      /\ sessions'[dst].apply = sessions[src].apply
                      /\ ~sessions'[src].apply
                      /\ ArmedCount' = ArmedCount
             /\ (op' = "session_assign" /\ src # dst /\ Armed(dst)
                     /\ err' = "ok" /\ SessionMoveAssign(src, dst))
                   => /\ \E ub \in UBOutcomes :
                            idx'[TheKind] = undo(TheIndex, ub).idx
                      /\ sessions'[dst].apply = sessions[src].apply
                      /\ ~sessions'[src].apply
                      /\ ArmedCount' = ArmedCount - 1]_vars
    /\ [][\A s \in Slots :
             /\ (op' = "session_drop" /\ Armed(s) /\ err' = "ok" /\ SessionDrop(s))
                   => /\ \E ub \in UBOutcomes :
                            idx'[TheKind] = undo(TheIndex, ub).idx
                      /\ Len(idx'[TheKind].stack) = Len(TheIndex.stack) - 1
                      /\ ArmedCount' = ArmedCount - 1
             /\ (op' = "session_drop" /\ sessions[s].live /\ ~sessions[s].apply
                     /\ SessionDrop(s))
                   => idx' = idx /\ ArmedCount' = ArmedCount
             /\ (op' = "session_push" /\ SessionPush(s))
                   => /\ idx' = idx
                      /\ ~sessions'[s].apply
                      /\ \A u \in Slots \ {s} : sessions'[u] = sessions[u]]_vars

\* a session was move-constructed into a second handle and that handle was
\* move-assigned into a handle started disabled, which is now the only armed
\* one; the undo state of the session is still on the stack
C22_Witness ==
    /\ op = "session_assign"
    /\ err = "ok"
    /\ \E s \in Slots, u \in Slots :
          /\ Armed(s)
          /\ sessions[s].revision = -1
          /\ sessions[u].live
          /\ ~sessions[u].apply
          /\ sessions[u].revision = 0
    /\ ArmedCount = 1
    /\ Len(TheIndex.stack) = 1
    /\ Back(TheIndex.stack).new_ids # {}

\* ------------------------------------------------------------------ fan-out
\* C23 (all-or-none fan-out): in every state reached by operations of the
\* database, all registered indices have the same undo-stack depth and the
\* same revision, so that revision() of the database, which reads the first
\* registered index, is the revision of each of them.
C23_FanOut ==
    \A j \in Registered, k \in Registered :
        /\ Len(idx[j].stack) = Len(idx[k].stack)
        /\ idx[j].revision = idx[k].revision

\* ----------------------------------------------------------------- add_index
\* C24 as stated (add_index): for a kind whose registry key, the low 16 bits
\* of its type_id, has an entry in the registry, add_index fails with the
\* duplicate-registration error and leaves index_map and index_list as they
\* were; otherwise it adds one entry at that key and one element to
\* index_list.
C24_AddIndexStated ==
    [][\A k \in AllKinds :
          DbAddIndex(k)
             => IF index_map[k % 65536]
                THEN /\ err' = "duplicate"
                     /\ index_map' = index_map
                     /\ index_list' = index_list
                ELSE /\ err' = "ok"
                     /\ index_map' = [index_map EXCEPT ![k % 65536] = TRUE]
                     /\ index_list' = Append(index_list, k)]_vars

\* C24 as amended: as above, but when the key is free and the index is not
\* in the file of a read-only database, or the index in the file fails
\* validate(), add_index fails with that error and leaves index_map and
\* index_list as they were; in every other case it adds the one entry and
\* the one element.
C24_AddIndex ==
    [][\A k \in AllKinds :
          DbAddIndex(k)
             => IF index_map[k % 65536]
                THEN /\ err' = "duplicate"
                     /\ index_map' = index_map
                     /\ index_list' = index_list
                ELSE IF (read_only /\ segment[k] = "none") \/ segment[k] = "invalid"
                THEN /\ err' = IF segment[k] = "invalid"
                               THEN "binary_incompatible" ELSE "not_found"
                     /\ index_map' = index_map
                     /\ index_list' = index_list
                ELSE /\ err' = "ok"
                     /\ index_map' = [index_map EXCEPT ![k % 65536] = TRUE]
                     /\ index_list' = Append(index_list, k)
                     /\ Len(index_list') = Len(index_list) + 1]_vars

\* a kind has been refused because a kind with the same low 16 bits of
\* type_id is registered, and another kind is registered as well
C24_Witness ==
    /\ op = "add_index"
    /\ err = "duplicate"
    /\ Len(index_list) = 2
    /\ \E k \in AllKinds :
          /\ k \notin Registered
          /\ \E j \in Registered : j # k /\ j % 65536 = k % 65536

\* ------------------------------------------------------------------ undo_all
\* C25 (undo_all): undo_all() on a stack of any depth returns with the stack
\* empty, the revision lowered by the number of states that were on the
\* stack, and the live objects and next_id as they were when the oldest
\* state of the stack was started (stated for stacks whose newest state
\* records only live objects).
C25_UndoAll ==
    [][(/\ op' = "undo_all"
        /\ enabled(TheIndex)
        /\ UndoDefined(TheIndex)
        /\ UndoAll(TheKind))
          => /\ err' = "ok"
             /\ idx'[TheKind].stack = <<>>
             /\ idx'[TheKind].revision = TheIndex.revision - Len(TheIndex.stack)
             /\ idx'[TheKind].indices = TheIndex.stack[1].entry_objs
             /\ idx'[TheKind].next_id = TheIndex.stack[1].old_next_id]_vars

\* --------------------------------------------------------------------- locks
InCallback(t) == thread[t].pc = "callback"

\* C26 (mutual exclusion of the facade locks): while the callback of a
\* with_write_lock is executing, no callback of another with_write_lock or
\* with_read_lock is executing; a thread executes a callback only while it
\* owns the mutex in the mode of its call.
C26_MutualExclusion ==
    \A t \in Threads :
        InCallback(t)
           => /\ IF thread[t].kind = "write" THEN mutex.exclusive = t
                 ELSE t \in mutex.shared /\ mutex.exclusive = NoThread
              /\ thread[t].kind = "write"
                    => \A u \in Threads \ {t} : ~InCallback(u)

\* a writer executes its callback while another thread has timed out on the
\* mutex and tries again
C26_Witness ==
    \E t \in Threads, u \in Threads :
        /\ InCallback(t)
        /\ thread[t].kind = "write"
        /\ thread[u].pc = "timed_lock"
        /\ thread[u].timeouts > 0

\* C27 (retry budget): a timed call, one with a non-zero wait and a non-zero
\* retry count N, throws the timeout only when the first attempt and N
\* retries have timed out, and then the callback has not run; a call whose
\* attempt acquires the mutex runs the callback once, owning the mutex, and
\* whether the callback returns or raises the mutex is released when the
\* call returns.
C27_RetryBudget ==
    [][\A t \in Threads :
          /\ (thread[t].pc = "timed_lock" /\ thread'[t].pc = "decr_load")
                => /\ thread'[t].timeouts = thread[t].max_retries + 1
                   /\ thread'[t].result = "timeout"
                   /\ thread'[t].ran = 0
                   /\ ~Holds(mutex', t)
          /\ (thread[t].pc = "timed_lock" /\ thread'[t].pc = "callback")
                => /\ thread'[t].timeouts <= thread[t].max_retries
                   /\ thread'[t].ran = 1
                   /\ Holds(mutex', t)
          /\ (thread[t].pc = "callback" /\ thread'[t].pc # "callback")
                => /\ Holds(mutex, t)
                   /\ thread'[t].result \in {"ok", "callback_error"}
          /\ (thread[t].pc = "unlock" /\ thread'[t].pc = "idle")
                => /\ ~Holds(mutex', t)
                   /\ err' = thread[t].result
                   /\ thread[t].ran = IF err' = "timeout" THEN 0 ELSE 1
                   /\ thread[t].ran = 1 => Holds(mutex, t)]_vars

\* a timed with_write_lock has given up while a reader executes its callback
C27_Witness ==
    /\ op = "with_write_lock"
    /\ err = "timeout"
    /\ \E u \in Threads : InCallback(u) /\ thread[u].kind = "read"

\* C28 (with_write_lock on a read-only database): the call fails with the
\* invalid-state error before it touches the mutex, the lock counts or the
\* callback: the thread is in no call afterwards and nothing else changed.
C28_WriteLockReadOnly ==
    [][\A t \in Threads, w \in WaitMicros, n \in RetryCounts :
          (op' = "with_write_lock" /\ read_only /\ WithWriteLock(t, w, n))
             => /\ err' = "invalid_state"
                /\ thread'[t] = NoCall
                /\ mutex' = mutex
                /\ read_lock_count' = read_lock_count
                /\ write_lock_count' = write_lock_count]_vars

\* a with_write_lock has been refused while a reader executes its callback
C28_Witness ==
    /\ op = "with_write_lock"
    /\ err = "invalid_state"
    /\ read_only
    /\ \E u \in Threads : InCallback(u) /\ thread[u].kind = "read"
    /\ read_lock_count > 0

\* C29 (detection of calls made without the lock): once set_require_locking
\* (true) has been called, a create, modify, remove or set_revision made by a
\* thread that is not within the callback of its own with_write_lock fails
\* with the lock-discipline error, and so does a find or get on a read-only
\* database made by a thread that is not within the callback of its own
\* with_read_lock.
C29_LockDiscipline ==
    [][\A t \in Threads :
          /\ ( /\ enable_require_locking
               /\ ~(InCallback(t) /\ thread[t].kind = "write")
               /\ op' \in {"create", "modify", "remove", "set_revision"}
               /\ \/ \E key \in Keys : CheckedCreate(t, TheKind, key)
                  \/ \E obj \in idx[TheKind].indices, key \in Keys :
                        CheckedModify(t, TheKind, obj, key)
                  \/ \E obj \in idx[TheKind].indices :
                        CheckedRemove(t, TheKind, obj)
                  \/ \E r \in Revs : CheckedSetRevision(t, r) )
                => err' = "lock_discipline"
          /\ ( /\ enable_require_locking
               /\ read_only
               /\ ~(InCallback(t) /\ thread[t].kind = "read")
               /\ op' \in {"find", "get"}
               /\ \E id \in 0..DbMaxId :
                     CheckedFind(t, TheKind, id) \/ CheckedGet(t, TheKind, id) )
                => err' = "lock_discipline"]_vars

C31_SingleWriter ==
    \A t \in Threads, u \in Threads :
        ( /\ thread[t].pc = "callback" /\ thread[t].kind = "write"
          /\ thread[u].pc = "callback" /\ thread[u].kind = "write" )
           => t = u

\* ------------------------------------------------------ the file at open
EnvFields == {"compiler_version", "debug", "apple", "windows"}

\* the file holds a sentinel that agrees with the process's in every field
SentinelAgrees(d) ==
    d.has_env /\ \A f \in EnvFields : d.env[f] = environment_check[f]

\* C32 as stated (the environment check at open): open of an existing file
\* succeeds only if the stored sentinel exists and equals the process's in
\* every field; if it is missing or a field differs open fails with the
\* environment-mismatch error; a file that open creates holds a sentinel
\* equal to the process's.
C32_EnvironmentCheckStated ==
    [][op' = "open"
         => /\ (disk.bin /\ err' = "ok") => SentinelAgrees(disk)
            /\ (disk.bin /\ ~SentinelAgrees(disk))
                  => err' = "environment_mismatch"
            /\ (~disk.bin /\ disk'.bin) => SentinelAgrees(disk')]_vars

\* C32 as amended: as above, but an open in write mode that asks for a
\* larger file fails with the growth error, before the sentinel is looked
\* at, when the system refuses the growth; the file is then as it was.
C32_EnvironmentCheck ==
    [][op' = "open"
         => /\ (disk.bin /\ err' = "ok") => SentinelAgrees(disk)
            /\ (disk.bin /\ ~SentinelAgrees(disk))
                  => \/ err' = "environment_mismatch"
                     \/ /\ err' = "growth_refused"
                        /\ disk' = disk
                        /\ handle'.file_size = disk.size
            /\ (~disk.bin /\ disk'.bin) => SentinelAgrees(disk')]_vars

\* an open has failed on a file whose sentinel differs in the debug flag only
C32_Witness ==
    /\ op = "open"
    /\ err = "environment_mismatch"
    /\ disk.has_env
    /\ disk.env.debug # environment_check.debug
    /\ disk.env.compiler_version = environment_check.compiler_version

NoHandles == index_list = <<>> /\ \A key \in RegistryKeys : ~index_map[key]

\* C36 (close tears down what points into the segment): while no segment
\* is mapped, index_map and index_list hold no index handle.
C36_CloseTearsDown == ~handle.mapped => NoHandles

\* C37 (the read-only flag follows the last open): a with_write_lock on a
\* handle whose last open to return was made with read_write does not fail
\* with the invalid-state error, and on one whose last open to return was
\* made with read_only it does.
C37_ReadOnlyFollowsOpen ==
    [][(AllIdle /\ handle.mapped /\ op' = "with_write_lock")
         => /\ handle.flags = "read_write" => err' # "invalid_state"
            /\ handle.flags = "read_only" => err' = "invalid_state"]_vars

\* C38 (open with read_only writes nothing): if the directory or the file
\* is missing the call fails and creates no file; a file that exists keeps
\* its size, its sentinel and its indices; a call that returns leaves the
\* handle marked read-only.
C38_ReadOnlyOpen ==
    [][(op' = "open"
          /\ \E n \in Sizes, grow_ok \in BOOLEAN : Open("read_only", n, grow_ok))
         => /\ ~disk.bin => (err' # "ok" /\ ~disk'.bin)
            /\ disk.bin => (disk' = disk /\ segment' = segment)
            /\ err' = "ok" => read_only']_vars

\* C39 (a failed open leaves the handle closed): after an open that failed
\* on the sentinel, the growth or the file lock, no segment is mapped and
\* no directory is recorded.
C39_FailedOpenClosed ==
    [][(op' = "open"
          /\ err' \in {"environment_mismatch", "growth_refused", "already_locked"})
         => (~handle'.mapped /\ handle'.data_dir = NoDir)]_vars

\* --------------------------------------------------- recording a remove
\* C33 (what remove records in the newest undo state H): the remove of an
\* object created in H only takes its id out of H.new_ids; the remove of an
\* object modified in H moves its old_values entry, the value from the entry
\* of the session, to H.removed_values; the remove of an untouched object
\* stores its value in H.removed_values; and an undo of a state that holds
\* nothing but removed values, every other object being as it was when the
\* state was entered, brings back the objects of the session's entry with
\* their entry-time values.
OnlyRemoved(I) ==
    LET H == Back(I.stack)
    IN  /\ H.removed_values # {}
        /\ H.old_values = {}
        /\ H.new_ids = {}
        /\ I.indices =
           {o \in H.entry_objs : o.id \notin IdsOf(H.removed_values)}

C33_RecordRemove ==
    /\ [][\A obj \in TheIndex.indices :
             (op' = "remove" /\ enabled(TheIndex) /\ Remove(TheKind, obj))
                => LET H == Back(TheIndex.stack)
                       G == Back(idx'[TheKind].stack)
                   IN  /\ obj.id \in H.new_ids
                             => /\ G = [H EXCEPT !.new_ids = @ \ {obj.id}]
                                /\ ~HasId(G.old_values, obj.id)
                                /\ ~HasId(G.removed_values, obj.id)
                       /\ (obj.id \notin H.new_ids /\ HasId(H.old_values, obj.id))
                             => /\ G.removed_values = H.removed_values
                                      \cup {ById(H.entry_objs, obj.id)}
                                /\ G.old_values
                                      = {o \in H.old_values : o.id # obj.id}
                                /\ G.new_ids = H.new_ids
                       /\ ( /\ obj.id \notin H.new_ids
                            /\ ~HasId(H.old_values, obj.id)
                            /\ ~HasId(H.removed_values, obj.id) )
                             => /\ G.removed_values = H.removed_values \cup {obj}
                                /\ obj \in H.entry_objs
                                /\ G.old_values = H.old_values
                                /\ G.new_ids = H.new_ids]_vars
    /\ [][( /\ enabled(TheIndex)
            /\ OnlyRemoved(TheIndex)
            /\ op' = "undo"
            /\ Undo(TheKind) )
             => /\ err' = "ok"
                /\ idx'[TheKind].indices = Back(TheIndex.stack).entry_objs]_vars

\* a remove has recorded an object whose key another live object holds by
\* now
C33_Witness ==
    /\ op = "remove"
    /\ err = "ok"
    /\ enabled(TheIndex)
    /\ \E o \in Back(TheIndex.stack).removed_values :
          \E p \in TheIndex.indices : p.key = o.key /\ p.id # o.id

\* ------------------------------------------- what a session's end removes
\* C34 (a session ends its own state): whenever undo() on an armed session
\* or the drop of an armed session removes an undo state, the revision of
\* the removed state is the one the session reports.
C34_OwnState ==
    [][\A s \in Slots :
          ( /\ Armed(s)
            /\ op' \in {"session_undo", "session_drop"}
            /\ (SessionUndo(s) \/ SessionDrop(s))
            /\ Len(idx'[TheKind].stack) < Len(TheIndex.stack) )
             => Back(TheIndex.stack).revision = sessions[s].revision]_vars

\* ------------------------------------------------- the revision of a moved session
\* C35 (a move keeps the captured revision): after a move construction the
\* new handle reports the revision that the source reported before the move.
C35_MoveKeepsRevision ==
    [][\A src \in Slots, dst \in Slots :
          (op' = "session_move" /\ SessionMoveConstruct(src, dst))
             => sessions'[dst].revision = sessions[src].revision]_vars

\* ------------------------------------------------------ the lock counters
\* the calls of a kind that have counted themselves in and not yet out
CallsInProgress(kind) ==
    {t \in Threads :
        /\ thread[t].pc \in {"lock", "timed_lock", "callback",
                             "decr_load", "decr_store"}
        /\ thread[t].kind = kind}

\* C40 (the lock counters are balanced): each counter equals the number of
\* calls of its kind in progress, and both are zero when no call is in
\* progress.
C40_CountersBalanced ==
    /\ read_lock_count = Cardinality(CallsInProgress("read"))
    /\ write_lock_count = Cardinality(CallsInProgress("write"))
    /\ (\A t \in Threads : thread[t].pc = "idle")
          => (read_lock_count = 0 /\ write_lock_count = 0)

====
